---- MODULE Spec2Model ----
(***************************************************************************)
(* The task queue, the worker loop and the submission store of txt-map:    *)
(* src/workers.py, src/lib/storage/submissions.py,                         *)
(* src/handlers/submission_handler.py, src/handlers/task_queue_handler.py. *)
(*                                                                         *)
(* Every MongoDB call is one atomic step of a worker; an HTTP handler is   *)
(* one step.  A timestamp written by datetime.now()/utcnow() into          *)
(* started_at / completed_at is kept only as the non-null value Stamp;     *)
(* created_at, which the claim query sorts on, is the value of the request *)
(* clock.                                                                  *)
(***************************************************************************)
EXTENDS Integers, Sequences, FiniteSets, TLC

\* ---------------------------------------------------------------- bounds
MaxSubs == 2        \* submissions the store can hold
NumWorkers == 2     \* worker processes
MaxRequests == 2    \* HTTP requests served (AdminSpec)

\* ------------------------------------------------------------- constants
NULL == "null"
Stamp == "set"
NoTask == [id |-> 0, task_type |-> NULL, submission_id |-> 0]

Subs == 1..MaxSubs
Workers == 1..NumWorkers

Range(s) == {s[i] : i \in 1..Len(s)}

\* -------------------------------------------------- src/workers.py tables
TASK_DEPENDENCIES ==
  [t \in {"split_topic_generation", "subtopics_generation", "summarization",
          "mindmap", "insides", "prefix_tree"} |->
     CASE t = "split_topic_generation" -> {}
       [] t = "subtopics_generation" -> {"split_topic_generation"}
       [] t = "summarization" -> {"split_topic_generation"}
       [] t = "mindmap" -> {"subtopics_generation"}
       [] t = "insides" -> {"split_topic_generation"}
       [] t = "prefix_tree" -> {"split_topic_generation"}]

TASK_PRIORITIES ==
  [t \in {"split_topic_generation", "subtopics_generation", "summarization",
          "mindmap", "insides", "prefix_tree"} |->
     CASE t = "split_topic_generation" -> 1
       [] t = "subtopics_generation" -> 2
       [] t = "summarization" -> 3
       [] t = "mindmap" -> 3
       [] t = "insides" -> 3
       [] t = "prefix_tree" -> 3]

\* the keys of TASK_HANDLERS in insertion order
TASK_HANDLERS ==
  <<"split_topic_generation", "subtopics_generation", "summarization",
    "mindmap", "insides", "prefix_tree">>

\* TASK_PRIORITIES.get(t, 99)
WorkerPriority(t) ==
  IF t \in DOMAIN TASK_PRIORITIES THEN TASK_PRIORITIES[t] ELSE 99

\* sorted(seq, key=WorkerPriority): a stable sort
RECURSIVE InsertByKey(_, _)
InsertByKey(sorted, t) ==
  IF sorted = << >> THEN <<t>>
  ELSE IF WorkerPriority(sorted[Len(sorted)]) <= WorkerPriority(t)
       THEN Append(sorted, t)
       ELSE Append(InsertByKey(SubSeq(sorted, 1, Len(sorted) - 1), t),
                   sorted[Len(sorted)])

RECURSIVE SortedByPriority(_)
SortedByPriority(seq) ==
  IF seq = << >> THEN << >>
  ELSE InsertByKey(SortedByPriority(SubSeq(seq, 1, Len(seq) - 1)),
                   seq[Len(seq)])

ClaimOrder == SortedByPriority(TASK_HANDLERS)

\* ------------------------------- src/lib/storage/submissions.py tables
task_names ==
  <<"text_splitting", "topic_extraction", "summarization", "mindmap",
    "insides">>

task_dependencies ==
  [t \in Range(task_names) |->
     CASE t = "text_splitting" -> {}
       [] t = "topic_extraction" -> {"text_splitting"}
       [] t = "summarization" -> {"text_splitting", "topic_extraction"}
       [] t = "mindmap" -> {"text_splitting", "topic_extraction"}
       [] t = "insides" -> {"text_splitting"}]

\* ---------------------------- src/handlers/task_queue_handler.py tables
ALLOWED_TASKS ==
  <<"split_topic_generation", "subtopics_generation", "summarization",
    "mindmap", "prefix_tree">>

AdminPriorities ==
  [t \in Range(ALLOWED_TASKS) |->
     CASE t = "split_topic_generation" -> 1
       [] t = "subtopics_generation" -> 2
       [] t = "summarization" -> 3
       [] t = "mindmap" -> 3
       [] t = "prefix_tree" -> 3]

\* TASK_PRIORITIES.get(t, 3) of the handlers
AdminPriority(t) ==
  IF t \in DOMAIN AdminPriorities THEN AdminPriorities[t] ELSE 3

\* the (task_type, priority) list of _queue_all_tasks
QueueAllList ==
  << <<"split_topic_generation", 1>>, <<"subtopics_generation", 2>>,
     <<"summarization", 3>>, <<"mindmap", 3>>, <<"prefix_tree", 3>> >>

\* the local task_priorities table of post_refresh, with its default
RefreshPriorities ==
  [t \in {"split_topic_generation", "subtopics_generation", "summarization",
          "mindmap", "prefix_tree"} |->
     CASE t = "split_topic_generation" -> 1
       [] t = "subtopics_generation" -> 2
       [] t = "summarization" -> 3
       [] t = "mindmap" -> 3
       [] t = "prefix_tree" -> 3]

RefreshPriority(t) ==
  IF t \in DOMAIN RefreshPriorities THEN RefreshPriorities[t] ELSE 3

\* every name that can be a key of submission.tasks or a task_type
TaskNames == Range(TASK_HANDLERS) \cup Range(task_names)

\* ------------------------------------------------------------------ state
VARIABLES
  subs,     \* the submissions collection: submission_id -> document
  queue,    \* the task_queue collection: a set of entry documents
  clock,    \* number of HTTP requests served; the "now" of a request
  nextId,   \* the next _id handed out by insert_one
  nsubs,    \* number of submissions created so far
  pc,       \* per worker: the statement it executes next
  idx,      \* per worker: position of claim_task's for loop in ClaimOrder
  task,     \* per worker: the document find_one_and_update returned
  err,      \* per worker: str(e) of the exception being handled
  running,  \* per worker: Worker.running, cleared by the signal handler
  llm_cache, \* the llm_cache collection: a set of cached responses
  caller,   \* per worker: the cached LLM operation its handler is inside
  args,     \* the arguments of the library call under examination
  result    \* what that call returned or raised; NULL before the call

\* the state of the database and the workers
queueVars ==
  <<subs, queue, clock, nextId, nsubs, pc, idx, task, err, running,
    llm_cache, caller>>
\* the state of a call into the library
libVars == <<args, result>>

vars == <<subs, queue, clock, nextId, nsubs, pc, idx, task, err, running,
          llm_cache, caller, args, result>>

\* one value of submission.tasks[name]
TaskState(status, started, completed, error) ==
  [status |-> status, started_at |-> started, completed_at |-> completed,
   error |-> error]

PendingTask == TaskState("pending", NULL, NULL, NULL)
\* a key that submission.tasks does not hold: every .get() gives None
MissingTask == TaskState(NULL, NULL, NULL, NULL)

NoSubmission == [exists |-> FALSE, tasks |-> [t \in TaskNames |-> MissingTask]]

\* SubmissionsStorage.create: the document it inserts
NewSubmission ==
  [exists |-> TRUE,
   tasks |-> [t \in TaskNames |->
                IF t \in Range(task_names) THEN PendingTask ELSE MissingTask]]

\* SubmissionsStorage.get_by_id: the document, or NoSubmission for None
get_by_id(S, sid) ==
  IF sid \in Subs /\ S[sid].exists THEN S[sid] ELSE NoSubmission

\* SubmissionsStorage.update_task_status
update_task_status(S, sid, name, status, error) ==
  IF ~get_by_id(S, sid).exists THEN S
  ELSE LET old == S[sid].tasks[name]
           new == [status |-> status,
                   started_at |-> IF status = "processing" THEN Stamp
                                  ELSE old.started_at,
                   completed_at |-> IF status \in {"completed", "failed"}
                                    THEN Stamp ELSE old.completed_at,
                   error |-> IF error # NULL /\ error # "" THEN error
                             ELSE old.error]
       IN [S EXCEPT ![sid].tasks[name] = new]

\* one pass of the for loop inside the while loop of
\* expand_recalculation_tasks
RECURSIVE ExpandPass(_, _)
ExpandPass(expanded, i) ==
  IF i > Len(task_names) THEN expanded
  ELSE LET name == task_names[i]
       IN IF name \in expanded THEN ExpandPass(expanded, i + 1)
          ELSE IF task_dependencies[name] \cap expanded # {}
               THEN ExpandPass(expanded \cup {name}, i + 1)
               ELSE ExpandPass(expanded, i + 1)

RECURSIVE ExpandLoop(_)
ExpandLoop(expanded) ==
  LET next == ExpandPass(expanded, 1)
  IN IF next = expanded THEN expanded ELSE ExpandLoop(next)

\* None where a list is expected
NoList == <<NULL>>

\* SubmissionsStorage.expand_recalculation_tasks; requested is NoList (None)
\* or a sequence of names
expand_recalculation_tasks(requested) ==
  IF requested = NoList \/ "all" \in Range(requested) THEN task_names
  ELSE LET selected == Range(requested) \cap Range(task_names)
           expanded == ExpandLoop(selected)
       IN SelectSeq(task_names, LAMBDA n : n \in expanded)

\* SubmissionsStorage.clear_results, the tasks part
clear_results(S, sid, requested) ==
  LET names == Range(expand_recalculation_tasks(requested))
  IN IF ~get_by_id(S, sid).exists THEN S
     ELSE [S EXCEPT ![sid].tasks =
             [t \in TaskNames |-> IF t \in names THEN PendingTask ELSE @[t]]]

\* ------------------------------------------------------- queue documents
\* the document every insert_one of the handlers builds
NewEntry(id, sid, type, priority, now) ==
  [id |-> id, submission_id |-> sid, task_type |-> type,
   priority |-> priority, status |-> "pending", created_at |-> now,
   started_at |-> NULL, completed_at |-> NULL, worker_id |-> NULL,
   retry_count |-> 0, error |-> NULL]

\* the documents a handler's insert loop adds for the names of seq, in
\* order; prios[i] is the priority of the i-th
InsertAll(sid, seq, prios, now, firstId) ==
  {NewEntry(firstId + i - 1, sid, seq[i], prios[i], now) : i \in 1..Len(seq)}

\* Candidates with the status filter widened to entries already claimed
CandidatesAnyLive(q, type) ==
  LET P == {e \in q : /\ e.status \in {"pending", "processing"}
                      /\ e.task_type = type}
      Before(a, b) == \/ a.priority < b.priority
                      \/ a.priority = b.priority /\ a.created_at < b.created_at
  IN {e \in P : \A o \in P : ~Before(o, e)}

\* the documents find_one_and_update's filter and sort put first:
\* pending, of the task type, least (priority, created_at)
Candidates(q, type) ==
  LET P == {e \in q : e.status = "pending" /\ e.task_type = type}
      Before(a, b) == \/ a.priority < b.priority
                      \/ a.priority = b.priority /\ a.created_at < b.created_at
  IN {e \in P : \A o \in P : ~Before(o, e)}

\* the $set of find_one_and_update in claim_task
ClaimSet(e, w) ==
  [e EXCEPT !.status = "processing", !.started_at = Stamp, !.worker_id = w]

\* ReleaseSet counting the release as a retry
ReleaseSetCountsRetry(e) ==
  [e EXCEPT !.status = "pending", !.started_at = NULL, !.worker_id = NULL,
            !.retry_count = @ + 1]

\* the $set of the release update_one in claim_task
ReleaseSet(e) ==
  [e EXCEPT !.status = "pending", !.started_at = NULL, !.worker_id = NULL]

\* update_one({"_id": id}, ...) of the release
ReleaseOne(q, id) == {IF e.id = id THEN ReleaseSet(e) ELSE e : e \in q}

\* the update of _mark_task_completed on the queue
CompletedSet(e) ==
  [e EXCEPT !.status = "completed", !.completed_at = Stamp]

\* update_one({"_id": id}, ...) of _mark_task_completed
CompleteOne(q, id) == {IF e.id = id THEN CompletedSet(e) ELSE e : e \in q}

\* FailedSet without the $inc of retry_count
FailedSetNoInc(e, msg) ==
  [e EXCEPT !.status = "failed", !.completed_at = Stamp, !.error = msg]

\* the update of _mark_task_failed on the queue
FailedSet(e, msg) ==
  [e EXCEPT !.status = "failed", !.completed_at = Stamp, !.error = msg,
            !.retry_count = @ + 1]

\* update_one({"_id": id}, ...) of _mark_task_failed
FailOne(q, id, msg) == {IF e.id = id THEN FailedSet(e, msg) ELSE e : e \in q}

\* _dependencies_met accepting a dependency that is still processing
_dependencies_met_started(S, type, sid) ==
  LET deps == IF type \in DOMAIN TASK_DEPENDENCIES
              THEN TASK_DEPENDENCIES[type] ELSE {}
      submission == get_by_id(S, sid)
  IN IF deps = {} THEN TRUE
     ELSE IF ~submission.exists THEN FALSE
     ELSE \A dep \in deps :
            submission.tasks[dep].status \in {"completed", "processing"}

\* Worker._dependencies_met on the current submissions collection
_dependencies_met(S, type, sid) ==
  LET deps == IF type \in DOMAIN TASK_DEPENDENCIES
              THEN TASK_DEPENDENCIES[type] ELSE {}
      submission == get_by_id(S, sid)
  IN IF deps = {} THEN TRUE
     ELSE IF ~submission.exists THEN FALSE
     ELSE \A dep \in deps : submission.tasks[dep].status = "completed"

\* what the worker keeps of the claimed document
TaskOf(e) ==
  [id |-> e.id, task_type |-> e.task_type, submission_id |-> e.submission_id]

\* Worker.claim_task run by worker w without interruption, from position i
\* of its for loop: the documents it can return (NoTask for None)
RECURSIVE claim_task(_, _, _, _)
claim_task(q, S, w, i) ==
  IF i > Len(ClaimOrder) THEN {NoTask}
  ELSE LET found == Candidates(q, ClaimOrder[i])
       IN IF found = {} THEN claim_task(q, S, w, i + 1)
          ELSE UNION {
                 IF _dependencies_met(S, e.task_type, e.submission_id)
                 THEN {TaskOf(e)}
                 ELSE claim_task(
                        ReleaseOne((q \ {e}) \cup {ClaimSet(e, w)}, e.id),
                        S, w, i + 1) : e \in found}

\* ------------------------------------------------------------------ Init
\* no cached LLM operation in progress
NoCall == [pc |-> "idle", prompt |-> NULL, response |-> NULL, outputs |-> << >>]

\* the database and the workers right after start-up
QueueIdle ==
  /\ subs = [s \in Subs |-> NoSubmission]
  /\ queue = {}
  /\ clock = 0
  /\ nextId = 1
  /\ nsubs = 0
  /\ pc = [w \in Workers |-> "claim"]
  /\ idx = [w \in Workers |-> 1]
  /\ task = [w \in Workers |-> NoTask]
  /\ err = [w \in Workers |-> NULL]
  /\ running = [w \in Workers |-> TRUE]
  /\ llm_cache = {}
  /\ caller = [w \in Workers |-> NoCall]

Init ==
  /\ QueueIdle
  /\ args = NULL
  /\ result = NULL

\* --------------------------------------------------- worker: claim_task
\* the for loop moves to the next task type; after the last one claim_task
\* returns None, run() sleeps and calls claim_task again
NextIdx(i) == IF i < Len(ClaimOrder) THEN i + 1 ELSE 1

\* run(): while self.running, read when process_task has returned or the
\* sleep after an empty claim_task is over
RunLoopIgnoresFlag(w) == "claim"
RunLoop(w) == IF running[w] THEN "claim" ELSE "stopped"

\* the for loop of claim_task goes on, or claim_task returns None
AfterType(w) == IF idx[w] < Len(ClaimOrder) THEN "claim" ELSE RunLoop(w)

\* find_one_and_update for the task type the loop is at
ClaimFind(w) ==
  /\ pc[w] = "claim"
  /\ LET type == ClaimOrder[idx[w]]
     IN IF Candidates(queue, type) = {}
        THEN /\ idx' = [idx EXCEPT ![w] = NextIdx(@)]
             /\ pc' = [pc EXCEPT ![w] = AfterType(w)]
             /\ UNCHANGED <<queue, task>>
        ELSE \E e \in Candidates(queue, type) :
               /\ queue' = (queue \ {e}) \cup {ClaimSet(e, w)}
               /\ task' = [task EXCEPT ![w] = TaskOf(e)]
               /\ pc' = [pc EXCEPT ![w] = "deps"]
               /\ UNCHANGED idx
  /\ UNCHANGED <<subs, clock, nextId, nsubs, err>>
  /\ UNCHANGED <<running, llm_cache, caller, libVars>>

\* if self._dependencies_met(task): return task
ClaimCheck(w) ==
  /\ pc[w] = "deps"
  /\ pc' = [pc EXCEPT ![w] =
             IF _dependencies_met(subs, task[w].task_type,
                                  task[w].submission_id)
             THEN "process" ELSE "release"]
  /\ UNCHANGED <<subs, queue, clock, nextId, nsubs, idx, task, err>>
  /\ UNCHANGED <<running, llm_cache, caller, libVars>>

\* dependencies not met: put back as pending, continue the loop
ClaimRelease(w) ==
  /\ pc[w] = "release"
  /\ queue' = ReleaseOne(queue, task[w].id)
  /\ task' = [task EXCEPT ![w] = NoTask]
  /\ idx' = [idx EXCEPT ![w] = NextIdx(@)]
  /\ pc' = [pc EXCEPT ![w] = AfterType(w)]
  /\ UNCHANGED <<subs, clock, nextId, nsubs, err>>
  /\ UNCHANGED <<running, llm_cache, caller, libVars>>

\* ------------------------------------------------- worker: process_task
\* str(e) of the exceptions a handler raises
HandlerErrors == {"", "boom"}
NotFoundError == "Submission not found"
NoHandlerError == "No handler for task type"

\* handler lookup, then update_task_status(..., "processing")
ProcessStart(w) ==
  /\ pc[w] = "process"
  /\ IF task[w].task_type \notin Range(TASK_HANDLERS)
     THEN /\ err' = [err EXCEPT ![w] = NoHandlerError]
          /\ pc' = [pc EXCEPT ![w] = "fail_q"]
          /\ UNCHANGED subs
     ELSE /\ subs' = update_task_status(subs, task[w].submission_id,
                                        task[w].task_type, "processing", NULL)
          /\ pc' = [pc EXCEPT ![w] = "load"]
          /\ UNCHANGED err
  /\ UNCHANGED <<queue, clock, nextId, nsubs, idx, task>>
  /\ UNCHANGED <<running, llm_cache, caller, libVars>>

\* submission = get_by_id(...); if not submission: raise ValueError
ProcessLoad(w) ==
  /\ pc[w] = "load"
  /\ IF get_by_id(subs, task[w].submission_id).exists
     THEN /\ pc' = [pc EXCEPT ![w] = "handler"]
          /\ UNCHANGED err
     ELSE /\ err' = [err EXCEPT ![w] = NotFoundError]
          /\ pc' = [pc EXCEPT ![w] = "fail_q"]
  /\ UNCHANGED <<subs, queue, clock, nextId, nsubs, idx, task>>
  /\ UNCHANGED <<running, llm_cache, caller, libVars>>

\* handler(submission, db, llm) returns
HandlerReturns(w) ==
  /\ pc[w] = "handler"
  /\ pc' = [pc EXCEPT ![w] = "done_q"]
  /\ UNCHANGED <<subs, queue, clock, nextId, nsubs, idx, task, err>>
  /\ UNCHANGED <<running, llm_cache, caller, libVars>>

\* handler(submission, db, llm) raises; except Exception as e
HandlerRaises(w, msg) ==
  /\ pc[w] = "handler"
  /\ err' = [err EXCEPT ![w] = msg]
  /\ pc' = [pc EXCEPT ![w] = "fail_q"]
  /\ UNCHANGED <<subs, queue, clock, nextId, nsubs, idx, task>>
  /\ UNCHANGED <<running, llm_cache, caller, libVars>>

\* _mark_task_completed: the task_queue update
MarkCompletedQueue(w) ==
  /\ pc[w] = "done_q"
  /\ queue' = CompleteOne(queue, task[w].id)
  /\ pc' = [pc EXCEPT ![w] = "done_s"]
  /\ UNCHANGED <<subs, clock, nextId, nsubs, idx, task, err>>
  /\ UNCHANGED <<running, llm_cache, caller, libVars>>

\* _mark_task_completed: the submission update; back to run()'s loop
MarkCompletedSubmission(w) ==
  /\ pc[w] = "done_s"
  /\ subs' = update_task_status(subs, task[w].submission_id,
                                task[w].task_type, "completed", NULL)
  /\ pc' = [pc EXCEPT ![w] = RunLoop(w)]
  /\ idx' = [idx EXCEPT ![w] = 1]
  /\ task' = [task EXCEPT ![w] = NoTask]
  /\ UNCHANGED <<queue, clock, nextId, nsubs, err>>
  /\ UNCHANGED <<running, llm_cache, caller, libVars>>

\* _mark_task_failed: the task_queue update
MarkFailedQueue(w) ==
  /\ pc[w] = "fail_q"
  /\ queue' = FailOne(queue, task[w].id, err[w])
  /\ pc' = [pc EXCEPT ![w] = "fail_s"]
  /\ UNCHANGED <<subs, clock, nextId, nsubs, idx, task, err>>
  /\ UNCHANGED <<running, llm_cache, caller, libVars>>

\* _mark_task_failed: the submission update; back to run()'s loop
MarkFailedSubmission(w) ==
  /\ pc[w] = "fail_s"
  /\ subs' = update_task_status(subs, task[w].submission_id,
                                task[w].task_type, "failed", err[w])
  /\ pc' = [pc EXCEPT ![w] = RunLoop(w)]
  /\ idx' = [idx EXCEPT ![w] = 1]
  /\ task' = [task EXCEPT ![w] = NoTask]
  /\ err' = [err EXCEPT ![w] = NULL]
  /\ UNCHANGED <<queue, clock, nextId, nsubs>>
  /\ UNCHANGED <<running, llm_cache, caller, libVars>>

\* ------------------------------------------------------- HTTP handlers
\* every request, served or rejected, takes one tick of the request clock
Tick == clock' = clock + 1

Rejected == UNCHANGED <<subs, queue, nextId, nsubs>>

\* POST /api/submit and /api/upload: create, then _queue_all_tasks
Submit ==
  /\ Tick
  /\ nsubs < MaxSubs
  /\ LET sid == nsubs + 1
         names == [i \in 1..Len(QueueAllList) |-> QueueAllList[i][1]]
         prios == [i \in 1..Len(QueueAllList) |-> QueueAllList[i][2]]
     IN /\ subs' = [subs EXCEPT ![sid] = NewSubmission]
        /\ queue' = queue \cup InsertAll(sid, names, prios, clock, nextId)
        /\ nextId' = nextId + Len(names)
        /\ nsubs' = sid
  /\ UNCHANGED <<pc, idx, task, err>>
  /\ UNCHANGED <<running, llm_cache, caller, libVars>>

\* the bodies {"tasks": ...} of a refresh request; << >> stands for both
\* None and [], which `refresh_request.tasks or ["all"]` treats alike
RefreshInputs ==
  {<< >>, <<"all">>, <<"unknown_task">>} \cup {<<t>> : t \in TaskNames}

\* POST /api/submission/{id}/refresh
Refresh(sid, tasks) ==
  /\ Tick
  /\ LET requested == IF tasks = << >> THEN <<"all">> ELSE tasks
         invalid == {t \in Range(requested) :
                       t # "all" /\ t \notin Range(task_names)}
         names == expand_recalculation_tasks(requested)
         prios == [i \in 1..Len(names) |-> RefreshPriority(names[i])]
     IN IF ~get_by_id(subs, sid).exists \/ invalid # {}
        THEN Rejected
        ELSE /\ subs' = clear_results(subs, sid, names)
             /\ queue' =
                  {e \in queue : ~(/\ e.submission_id = sid
                                    /\ e.task_type \in Range(names))}
                  \cup InsertAll(sid, names, prios, clock, nextId)
             /\ nextId' = nextId + Len(names)
             /\ UNCHANGED nsubs
  /\ UNCHANGED <<pc, idx, task, err>>
  /\ UNCHANGED <<running, llm_cache, caller, libVars>>

\* POST /api/task-queue/{task_id}/repeat
Repeat(id) ==
  /\ Tick
  /\ LET found == {e \in queue : e.id = id}
     IN IF found = {} THEN Rejected
        ELSE LET entry == CHOOSE e \in found : TRUE
                 sid == entry.submission_id
                 expanded == expand_recalculation_tasks(<<entry.task_type>>)
                 prios == [i \in 1..Len(expanded) |->
                             AdminPriority(expanded[i])]
             IN IF \/ entry.task_type \notin Range(ALLOWED_TASKS)
                   \/ ~get_by_id(subs, sid).exists
                THEN Rejected
                ELSE /\ subs' = clear_results(subs, sid, expanded)
                     /\ queue' =
                          {e \in queue :
                             ~(/\ e.submission_id = sid
                               /\ e.task_type \in Range(expanded)
                               /\ e.status \in {"pending", "processing"})}
                          \cup InsertAll(sid, expanded, prios, clock, nextId)
                     /\ nextId' = nextId + Len(expanded)
                     /\ UNCHANGED nsubs
  /\ UNCHANGED <<pc, idx, task, err>>
  /\ UNCHANGED <<running, llm_cache, caller, libVars>>

\* AddTaskRequest.priority: None (NoPriority) or an integer in 1..10
NoPriority == 0
AddPriorities == {NoPriority, 1, 4}

\* POST /api/task-queue/add
Add(sid, type, priority) ==
  /\ Tick
  /\ LET expanded == expand_recalculation_tasks(<<type>>)
         prios == [i \in 1..Len(expanded) |->
                     IF priority # NoPriority THEN priority
                     ELSE AdminPriority(expanded[i])]
     IN IF \/ type \notin Range(ALLOWED_TASKS)
           \/ ~get_by_id(subs, sid).exists
        THEN Rejected
        ELSE /\ subs' = clear_results(subs, sid, expanded)
             /\ queue' = queue \cup
                            InsertAll(sid, expanded, prios, clock, nextId)
             /\ nextId' = nextId + Len(expanded)
             /\ UNCHANGED nsubs
  /\ UNCHANGED <<pc, idx, task, err>>
  /\ UNCHANGED <<running, llm_cache, caller, libVars>>

\* DELETE /api/task-queue/{task_id}
DeleteEntry(id) ==
  /\ Tick
  /\ queue' = {e \in queue : e.id # id}
  /\ UNCHANGED <<subs, nextId, nsubs, pc, idx, task, err>>
  /\ UNCHANGED <<running, llm_cache, caller, libVars>>

\* DELETE /api/submission/{submission_id}
DeleteSubmission(sid) ==
  /\ Tick
  /\ IF ~get_by_id(subs, sid).exists THEN Rejected
     ELSE /\ queue' = {e \in queue : e.submission_id # sid}
          /\ subs' = [subs EXCEPT ![sid] = NoSubmission]
          /\ UNCHANGED <<nextId, nsubs>>
  /\ UNCHANGED <<pc, idx, task, err>>
  /\ UNCHANGED <<running, llm_cache, caller, libVars>>

\* ------------------------------------------------------- specification
EntryIds == {e.id : e \in queue}

WorkerStep(w, errors) ==
  \/ ClaimFind(w)
  \/ ClaimCheck(w)
  \/ ClaimRelease(w)
  \/ ProcessStart(w)
  \/ ProcessLoad(w)
  \/ HandlerReturns(w)
  \/ \E msg \in errors : HandlerRaises(w, msg)
  \/ MarkCompletedQueue(w)
  \/ MarkCompletedSubmission(w)
  \/ MarkFailedQueue(w)
  \/ MarkFailedSubmission(w)

\* the workers of the deployment racing for the entries of one submission
Next ==
  \/ \E w \in Workers : WorkerStep(w, {"boom"})
  \/ nsubs = 0 /\ Submit

Spec == Init /\ [][Next]_vars

\* one worker next to the HTTP handlers

AdminNext ==
  \/ WorkerStep(1, HandlerErrors)
  \/ clock < MaxRequests /\ Submit
  \/ clock < MaxRequests /\
       \E sid \in Subs, tasks \in RefreshInputs : Refresh(sid, tasks)
  \/ clock < MaxRequests /\ \E id \in EntryIds \cup {0} : Repeat(id)
  \/ clock < MaxRequests /\
       \E sid \in Subs, type \in TaskNames, p \in AddPriorities :
         Add(sid, type, p)
  \/ clock < MaxRequests /\ \E id \in EntryIds \cup {0} : DeleteEntry(id)
  \/ clock < MaxRequests /\ \E sid \in Subs : DeleteSubmission(sid)

AdminSpec == Init /\ [][AdminNext]_vars

\* =============================================================== claims
\* The task registry as the specification words it (section 4.11).
CanonicalTasks ==
  {"split_topic_generation", "subtopics_generation", "summarization",
   "mindmap", "insides", "prefix_tree"}

RegistryPrerequisites(t) ==
  IF t = "split_topic_generation" THEN {} ELSE {"split_topic_generation"}

RegistryPriority(t) ==
  IF t = "split_topic_generation" THEN 1
  ELSE IF t = "subtopics_generation" THEN 2 ELSE 3

RegistryClosure(t) ==
  IF t \in {"split_topic_generation", "all"} THEN CanonicalTasks ELSE {t}

Has(q, id) == \E e \in q : e.id = id
EntryOf(q, id) == CHOOSE e \in q : e.id = id
Live(e) == e.status \in {"pending", "processing"}

\* every prerequisite of task type t, by the registry of the specification
\* and by the table of the worker, is completed on submission sid
PrerequisitesCompleted(S, t, sid) ==
  /\ get_by_id(S, sid).exists
  /\ \A dep \in RegistryPrerequisites(t) \cup
                 (IF t \in DOMAIN TASK_DEPENDENCIES
                  THEN TASK_DEPENDENCIES[t] ELSE {}) :
       S[sid].tasks[dep].status = "completed"

\* C1: a worker leaves claim_task with an entry of task type T, and so
\* starts process_task and the handler of T, only from its dependency check
\* and only when every prerequisite of T is completed on the submission in
\* the state the check read.
C1_PrerequisitesBeforeStart ==
  [][\A w \in Workers :
       (pc'[w] = "process" /\ pc[w] # "process") =>
         /\ pc[w] = "deps"
         /\ task'[w] = task[w]
         /\ \/ RegistryPrerequisites(task[w].task_type) = {}
            \/ PrerequisitesCompleted(subs, task[w].task_type,
                                      task[w].submission_id)]_vars

\* C1 witness: a worker runs the mindmap handler while the other worker is
\* inside claim_task
C1_Witness ==
  \E w, o \in Workers :
     /\ w # o
     /\ pc[w] = "handler"
     /\ task[w].task_type = "mindmap"
     /\ pc[o] \in {"claim", "deps", "release"}

WorkersIdle == \A w \in Workers : pc[w] = "claim" /\ idx[w] = 1

\* a pending entry whose prerequisites are completed on its submission
Eligible(S, e) ==
  /\ e.status = "pending"
  /\ PrerequisitesCompleted(S, e.task_type, e.submission_id)

\* C3: after refresh with tasks = [T], T a canonical task or "all", every
\* task of T's downstream closure is pending with started_at, completed_at
\* and error null, and the status of every other task is unchanged.
C3_RefreshClosure ==
  [][\A sid \in Subs, T \in CanonicalTasks \cup {"all"} :
       (get_by_id(subs, sid).exists /\ Refresh(sid, <<T>>)) =>
         /\ \A t \in RegistryClosure(T) : subs'[sid].tasks[t] = PendingTask
         /\ \A t \in TaskNames \ RegistryClosure(T) :
              subs'[sid].tasks[t].status = subs[sid].tasks[t].status]_vars

\* C4: after a submit the queue holds, for the new submission, exactly one
\* entry for each canonical task, pending, with retry_count 0 and the
\* registry priority of its task.
C4_SubmitEnqueuesAll ==
  [][Submit =>
       \A t \in CanonicalTasks :
          LET entries == {e \in queue' : /\ e.submission_id = nsubs'
                                         /\ e.task_type = t}
          IN /\ Cardinality(entries) = 1
             /\ \A e \in entries : /\ e.status = "pending"
                                   /\ e.retry_count = 0
                                   /\ e.priority = RegistryPriority(t)]_vars

\* C5: after repeat on an existing entry of an allowed task type T, a fresh
\* pending entry with retry_count 0 exists for T and for every task of T's
\* downstream closure, tasks[T] of the submission is pending, and no earlier
\* pending or processing entry of those task types remains.
C5_RepeatRequeuesClosure ==
  [][\A old \in queue :
       (/\ old.task_type \in Range(ALLOWED_TASKS)
        /\ get_by_id(subs, old.submission_id).exists
        /\ Repeat(old.id)) =>
         /\ subs'[old.submission_id].tasks[old.task_type].status = "pending"
         /\ \A t \in RegistryClosure(old.task_type) :
              /\ \E e \in queue' : /\ e.id >= nextId
                                   /\ e.submission_id = old.submission_id
                                   /\ e.task_type = t
                                   /\ e.status = "pending"
                                   /\ e.retry_count = 0
              /\ \A e \in queue' :
                   (/\ e.id < nextId
                    /\ e.submission_id = old.submission_id
                    /\ e.task_type = t) => ~Live(e)]_vars

\* C6: the queue never holds two pending or processing entries of one
\* (submission_id, task_type) pair.
C6_OneLiveEntryPerTask ==
  \A sid \in Subs, t \in TaskNames :
     Cardinality({e \in queue : /\ e.submission_id = sid
                                /\ e.task_type = t
                                /\ Live(e)}) <= 1

\* C7: once split_topic_generation of a submission is completed, a pending
\* mindmap entry of it is returned by a claim_task call made while it is
\* the only pending entry of the queue, whatever the other tasks' status.
C7_MindmapClaimableAfterSplit ==
  \A e \in queue :
     (/\ WorkersIdle
      /\ e.task_type = "mindmap"
      /\ {p \in queue : p.status = "pending"} = {e}
      /\ get_by_id(subs, e.submission_id).exists
      /\ subs[e.submission_id].tasks["split_topic_generation"].status =
           "completed")
     => claim_task(queue, subs, 1, 1) = {TaskOf(e)}

\* C8: claim_task never returns an entry while another pending entry with
\* completed prerequisites and a strictly lower priority value exists.
C8_LowerPriorityFirst ==
  WorkersIdle =>
    \A r \in claim_task(queue, subs, 1, 1) \ {NoTask} :
       ~\E o \in queue : /\ Eligible(subs, o)
                         /\ o.priority < EntryOf(queue, r.id).priority

\* C9: among the pending entries of equal priority with completed
\* prerequisites, of whatever task types, claim_task returns the one with
\* the oldest created_at.
C9_OldestFirstWithinPriority ==
  WorkersIdle =>
    \A r \in claim_task(queue, subs, 1, 1) \ {NoTask} :
       ~\E o \in queue : /\ Eligible(subs, o)
                         /\ o.priority = EntryOf(queue, r.id).priority
                         /\ o.created_at < EntryOf(queue, r.id).created_at

\* C10: when a handler raised, _mark_task_failed sets the entry to failed
\* with error = str(e) and retry_count one higher, the worker returns to
\* the top of its loop, and a failed entry is never changed or claimed
\* again.
C10_FailNoRetry ==
  [][/\ \A w \in Workers :
          /\ (pc[w] = "handler" /\ pc'[w] # "handler") =>
               \/ pc'[w] = "done_q"
               \/ pc'[w] = "fail_q" /\ err'[w] \in HandlerErrors
          /\ (pc[w] = "fail_q" /\ pc'[w] # "fail_q") =>
               /\ pc'[w] = "fail_s"
               /\ err'[w] = err[w]
               /\ \A e \in queue :
                    e.id = task[w].id =>
                      /\ Has(queue', e.id)
                      /\ EntryOf(queue', e.id) =
                           [e EXCEPT !.status = "failed",
                                     !.error = err[w],
                                     !.completed_at = Stamp,
                                     !.retry_count = e.retry_count + 1]
          /\ (pc[w] = "fail_s" /\ pc'[w] # "fail_s") =>
               pc'[w] = "claim" /\ idx'[w] = 1
     /\ \A e \in queue :
          e.status = "failed" =>
            /\ Has(queue', e.id) => EntryOf(queue', e.id) = e
            /\ \A w \in Workers : task'[w].id = e.id => task[w].id = e.id
    ]_vars

\* C10 witness: an entry failed with the handler's message and one retry
\* counted, and the worker that failed it is running the next handler
C10_Witness ==
  \E e \in queue, w \in Workers :
     /\ e.status = "failed" /\ e.error = "boom" /\ e.retry_count = 1
     /\ e.worker_id = w
     /\ pc[w] = "handler" /\ task[w].id # e.id


\* ================================================= get_overall_status
Statuses == {"pending", "processing", "completed", "failed"}

\* get_overall_status with the processing check moved to the front
get_overall_status_processing_first(submission) ==
  LET statuses == {submission.tasks[t].status : t \in DOMAIN submission.tasks}
  IN IF "processing" \in statuses THEN "processing"
     ELSE IF "failed" \in statuses THEN "failed"
     ELSE IF \A st \in statuses : st = "completed" THEN "completed"
     ELSE "pending"

\* SubmissionsStorage.get_overall_status: any failed, all completed, any
\* processing, otherwise pending
get_overall_status(submission) ==
  LET statuses == {submission.tasks[t].status : t \in DOMAIN submission.tasks}
  IN IF \E st \in statuses : st = "failed" THEN "failed"
     ELSE IF \A st \in statuses : st = "completed" THEN "completed"
     ELSE IF \E st \in statuses : st = "processing" THEN "processing"
     ELSE "pending"

\* submission documents whose tasks map holds any subset of the stored task
\* names, each in any status
StatusDocs ==
  UNION {[tasks : [D -> {TaskState(st, NULL, NULL, NULL) : st \in Statuses}]] :
           D \in SUBSET Range(task_names)}

StatusInit ==
  /\ QueueIdle
  /\ args \in StatusDocs
  /\ result = NULL

\* GET /submission/{id}/status computes overall_status of the document read
GetOverallStatus ==
  /\ result = NULL
  /\ result' = get_overall_status(args)
  /\ UNCHANGED <<queueVars, args>>

StatusNext == GetOverallStatus

StatusSpec == StatusInit /\ [][StatusNext]_vars

\* the reduction with the check order failed > processing > (all completed)
\* > pending
OverallByClaimedOrder(tasks) ==
  LET statuses == {tasks[t].status : t \in DOMAIN tasks}
  IN IF "failed" \in statuses THEN "failed"
     ELSE IF "processing" \in statuses THEN "processing"
     ELSE IF statuses \subseteq {"completed"} THEN "completed"
     ELSE "pending"

\* C11: for every mapping of task names to statuses get_overall_status
\* returns failed if any task is failed, otherwise processing if any is
\* processing, otherwise completed if all are completed, otherwise pending.
C11_OverallStatusOrder ==
  result # NULL => result = OverallByClaimedOrder(args.tasks)

\* C11 witness: a failed and a processing task together reduce to failed
C11_Witness ==
  /\ result = "failed"
  /\ \E t \in DOMAIN args.tasks : args.tasks[t].status = "processing"
  /\ \E t \in DOMAIN args.tasks : args.tasks[t].status = "completed"


\* =========================================== expand_recalculation_tasks
MaxRequested == 2   \* longest list of requested task names

\* the names a request can carry: every task name of the worker and of the
\* store, the token "all" and a name nobody knows
RequestNames == TaskNames \cup {"all", "unknown_task"}

RequestLists == UNION {[1..n -> RequestNames] : n \in 0..MaxRequested}

ExpandInit ==
  /\ QueueIdle
  /\ args \in [task_names : RequestLists \cup {NoList}]
  /\ result = NoList

\* a call of expand_recalculation_tasks(task_names)
Expand ==
  /\ result = NoList
  /\ result' = expand_recalculation_tasks(args.task_names)
  /\ UNCHANGED <<queueVars, args>>

ExpandNext == Expand

ExpandSpec == ExpandInit /\ [][ExpandNext]_vars

\* the transitive downstream closure over the task registry of the request
ClosureOfRequest(requested) ==
  IF requested = NoList THEN CanonicalTasks
  ELSE IF "all" \in Range(requested) THEN CanonicalTasks
  ELSE UNION {RegistryClosure(t) : t \in Range(requested) \cap CanonicalTasks}

\* C12: expand_recalculation_tasks returns the transitive downstream
\* closure of the requested tasks over the task registry: all six canonical
\* tasks for split_topic_generation, for "all" and for no request, and just
\* the task itself for a leaf task.
C12_ExpandIsRegistryClosure ==
  result # NoList => Range(result) = ClosureOfRequest(args.task_names)


\* ========================================================= clear_results
\* the result fields of a submission document; a field is kept as missing,
\* empty ([] / {} / "" / 0) or filled
TextFields ==
  {"sentences", "html_sentences", "words", "html_words", "marked_text",
   "marker_count", "marker_word_indices", "word_to_paragraph",
   "paragraph_texts"}

ResultFields ==
  TextFields \cup
  {"topics", "subtopics", "topic_summaries", "summary", "summary_mappings",
   "topic_mindmaps", "mindmap_results", "mindmap_metadata", "insides",
   "prefix_tree"}

\* the results of create(): every field empty, mindmap_metadata and
\* prefix_tree not there yet
NewResults ==
  [f \in ResultFields |->
     IF f \in {"mindmap_metadata", "prefix_tree"} THEN "missing" ELSE "empty"]

\* the fields each task handler writes with update_results
WrittenBy(t) ==
  CASE t = "text_splitting" -> TextFields
    [] t = "topic_extraction" -> {"topics", "sentences", "subtopics"}
    [] t = "split_topic_generation" -> {"sentences", "topics"}
    [] t = "subtopics_generation" -> {"subtopics"}
    [] t = "summarization" ->
         {"summary", "summary_mappings", "topic_summaries"}
    [] t = "mindmap" ->
         {"topic_mindmaps", "mindmap_results", "mindmap_metadata"}
    [] t = "insides" -> {"insides"}
    [] t = "prefix_tree" -> {"prefix_tree"}
    [] OTHER -> {}

\* clear_results that empties the summarization fields along with mindmap
ClearedFieldsWithSummaries(results, names) ==
  [f \in ResultFields |->
     IF \/ "text_splitting" \in names /\ f \in TextFields
        \/ "topic_extraction" \in names /\ f \in {"topics", "subtopics"}
        \/ /\ "mindmap" \in names
           /\ f \in {"topic_summaries", "summary", "summary_mappings",
                      "topic_mindmaps", "mindmap_results", "mindmap_metadata"}
        \/ "insides" \in names /\ f = "insides"
     THEN "empty" ELSE results[f]]

\* SubmissionsStorage.clear_results, the results part: the fields the
\* update sets for the expanded names
ClearedFields(results, names) ==
  [f \in ResultFields |->
     IF \/ "text_splitting" \in names /\ f \in TextFields
        \/ "topic_extraction" \in names /\ f \in {"topics", "subtopics"}
        \/ /\ "summarization" \in names
           /\ f \in {"topic_summaries", "summary", "summary_mappings"}
        \/ /\ "mindmap" \in names
           /\ f \in {"topic_mindmaps", "mindmap_results", "mindmap_metadata"}
        \/ "insides" \in names /\ f = "insides"
     THEN "empty" ELSE results[f]]

\* SubmissionsStorage.clear_results on one stored document: task statuses
\* and result fields go into the same update_one
ClearDocument(doc, requested) ==
  LET names == Range(expand_recalculation_tasks(requested))
      reset == clear_results(<<doc>>, 1, requested)[1]
  IN [reset EXCEPT !.results = ClearedFields(@, names)]

\* a stored document: its tasks all in one terminal status, and for each
\* task either nothing written yet or every field of the task filled
ClearDocs ==
  {[exists |-> TRUE,
    tasks |-> [t \in TaskNames |->
                 IF t \in Range(task_names) \cup Range(TASK_HANDLERS)
                 THEN TaskState(st, Stamp, Stamp, NULL) ELSE MissingTask],
    results |-> [f \in ResultFields |->
                   IF \E t \in done : f \in WrittenBy(t)
                   THEN "filled" ELSE NewResults[f]]] :
     st \in {"completed", "failed"}, done \in SUBSET Range(TASK_HANDLERS)}

NoDocument == [exists |-> FALSE, tasks |-> << >>, results |-> << >>]

ClearInit ==
  /\ QueueIdle
  /\ args \in [submission : ClearDocs, task_names : RequestLists \cup {NoList}]
  /\ result = NoDocument

\* clear_results(submission_id, task_names), then the document is read back
ClearResults ==
  /\ ~result.exists
  /\ result' = ClearDocument(args.submission, args.task_names)
  /\ UNCHANGED <<queueVars, args>>

ClearNext == ClearResults

ClearSpec == ClearInit /\ [][ClearNext]_vars

\* the result fields and the task entries a clear_results call changed
ChangedFields == {f \in ResultFields : result.results[f] # args.submission.results[f]}
ChangedTasks == {t \in TaskNames : result.tasks[t] # args.submission.tasks[t]}

\* the request names only tasks of the registry, or "all", or is absent
CanonicalRequest(requested) ==
  requested = NoList \/ Range(requested) \subseteq CanonicalTasks \cup {"all"}

\* C13: clear_results changes only the result fields owned by the tasks in
\* the expanded closure of task_names (the one the store computes, and for a
\* request over the registry the registry's closure too), and resets no
\* task outside that closure; with every task completed, a clear for mindmap
\* resets mindmap alone and leaves topic_summaries and sentences as they
\* were.
C13_ClearOnlyClosureFields ==
  result.exists =>
    LET requested == args.task_names
        expanded == Range(expand_recalculation_tasks(requested))
    IN /\ ChangedFields \subseteq UNION {WrittenBy(t) : t \in expanded}
       /\ ChangedTasks \subseteq expanded
       /\ CanonicalRequest(requested) =>
            /\ ChangedFields \subseteq
                  UNION {WrittenBy(t) : t \in ClosureOfRequest(requested)}
            /\ ChangedTasks \cap CanonicalTasks \subseteq
                  ClosureOfRequest(requested)
       /\ requested = <<"mindmap">> =>
            /\ ChangedTasks \subseteq {"mindmap"}
            /\ result.tasks["mindmap"] = PendingTask
            /\ \A f \in WrittenBy("mindmap") : result.results[f] = "empty"
            /\ \A f \in {"topic_summaries", "sentences"} :
                  result.results[f] = args.submission.results[f]

\* C13 witness: every task completed and every field filled, mindmap
\* cleared: its task is pending, its fields are empty, topic_summaries and
\* sentences are still filled
C13_Witness ==
  /\ args.task_names = <<"mindmap">>
  /\ \A t \in Range(TASK_HANDLERS) :
        args.submission.tasks[t].status = "completed"
  /\ \A f \in ResultFields \ TextFields : args.submission.results[f] = "filled"
  /\ result.exists
  /\ ChangedTasks = {"mindmap"}
  /\ ChangedFields = WrittenBy("mindmap")
  /\ result.results["topic_summaries"] = "filled"
  /\ result.results["sentences"] = "filled"


\* ============================================================ LLM cache
MaxCalls == 2       \* cached LLM operations one worker runs

Prompts == {"prompt1", "prompt2"}
\* what llm.call may answer to a prompt
Responses == {"answer1", "answer2"}

\* hashlib.md5(prompt.encode()).hexdigest()
prompt_hash(prompt) == <<"md5", prompt>>

\* cache_collection.find_one({"prompt_hash": prompt_hash})
CacheFindOne(cache, hash) == {d \in cache : d.prompt_hash = hash}

\* cache_collection.update_one({"prompt_hash": ...}, {"$set": ...},
\* upsert=True): the matching document is updated, or a new one inserted
CacheUpsert(cache, prompt, response) ==
  {d \in cache : d.prompt_hash # prompt_hash(prompt)} \cup
  {[prompt_hash |-> prompt_hash(prompt), prompt |-> prompt,
    response |-> response]}

\* the operation starts: the prompt is built and looked up; on a hit the
\* cached response is the output
CacheLookup(w, prompt) ==
  /\ caller[w].pc = "idle"
  /\ Len(caller[w].outputs) < MaxCalls
  /\ LET cached == CacheFindOne(llm_cache, prompt_hash(prompt))
     IN IF cached # {}
        THEN \E d \in cached :
               caller' = [caller EXCEPT
                            ![w].outputs = Append(@, <<prompt, d.response>>)]
        ELSE caller' = [caller EXCEPT ![w].pc = "llm", ![w].prompt = prompt]
  /\ UNCHANGED <<subs, queue, clock, nextId, nsubs, pc, idx, task, err,
                 running, llm_cache, libVars>>

\* response = llm.call([prompt])
LlmCall(w, response) ==
  /\ caller[w].pc = "llm"
  /\ caller' = [caller EXCEPT ![w].pc = "store", ![w].response = response]
  /\ UNCHANGED <<subs, queue, clock, nextId, nsubs, pc, idx, task, err,
                 running, llm_cache, libVars>>

\* the upsert after a miss; the caller's own response is the output
CacheStore(w) ==
  /\ caller[w].pc = "store"
  /\ llm_cache' = CacheUpsert(llm_cache, caller[w].prompt, caller[w].response)
  /\ caller' = [caller EXCEPT
                  ![w] = [NoCall EXCEPT
                            !.outputs = Append(caller[w].outputs,
                                               <<caller[w].prompt,
                                                 caller[w].response>>)]]
  /\ UNCHANGED <<subs, queue, clock, nextId, nsubs, pc, idx, task, err,
                 running, libVars>>

CacheNext ==
  \/ \E w \in Workers, prompt \in Prompts : CacheLookup(w, prompt)
  \/ \E w \in Workers, response \in Responses : LlmCall(w, response)
  \/ \E w \in Workers : CacheStore(w)

CacheSpec == Init /\ [][CacheNext]_vars

\* C14: a cached LLM operation called twice for a prompt returns the same
\* output, the cache holds at most one entry for a prompt hash, and a
\* stored response is never replaced once it has been inserted, also when
\* two workers miss concurrently on the same prompt.
C14_CacheNeverReplaced ==
  [][/\ \A d \in llm_cache :
          \E n \in llm_cache' :
             n.prompt_hash = d.prompt_hash /\ n.response = d.response
     /\ \A d, e \in llm_cache' : d.prompt_hash = e.prompt_hash => d = e
     /\ \A w \in Workers :
          \A i, j \in 1..Len(caller'[w].outputs) :
             caller'[w].outputs[i][1] = caller'[w].outputs[j][1] =>
               caller'[w].outputs[i][2] = caller'[w].outputs[j][2]
    ]_vars


\* ========================================================== gap handlers
MaxSentences == 3   \* sentences of the document handed to a gap handler
MaxGroups == 2      \* groups the parser returned
MaxRanges == 2      \* ranges of all the groups together

SentenceRange(start, end) == [start |-> start, end |-> end]
SentenceGroup(label, ranges) == [label |-> label, ranges |-> ranges]

Max(a, b) == IF a >= b THEN a ELSE b

\* the ranges a parser can return for a document of count sentences:
\* clamped to [0, count-1], start <= end
RangesWithin(count) ==
  {r \in [start : 0..(count - 1), end : 0..(count - 1)] : r.start <= r.end}

GroupLabels == <<"A", "B", "C", "D", "E">>

\* the lines of an LLM response as the parser reads them: which group a
\* range belongs to, in the order the ranges are written
RangeLines(count) ==
  UNION {[1..n -> [group : 1..MaxGroups, range : RangesWithin(count)]] :
           n \in 0..MaxRanges}

\* the groups of a parsed response; the parser appends a group only when it
\* has a range
GroupsOfLines(lines) ==
  LET used == {lines[i].group : i \in 1..Len(lines)}
      rangesOf(g) ==
        LET mine == SelectSeq(lines, LAMBDA l : l.group = g)
        IN [i \in 1..Len(mine) |-> mine[i].range]
  IN [g \in 1..Cardinality(used) |-> SentenceGroup(<<GroupLabels[g]>>, rangesOf(g))]

\* what a gap handler is called with
GapInputs(count) ==
  {[groups |-> GroupsOfLines(lines), sentence_count |-> count] :
     lines \in {l \in RangeLines(count) :
                  {l[i].group : i \in 1..Len(l)} =
                    1..Cardinality({l[i].group : i \in 1..Len(l)})}}

\* flat: the (group index, range) pairs of all groups in order
RECURSIVE Flatten(_, _)
Flatten(groups, gi) ==
  IF gi > Len(groups) THEN << >>
  ELSE [i \in 1..Len(groups[gi].ranges) |->
          [gi |-> gi, r |-> groups[gi].ranges[i]]] \o Flatten(groups, gi + 1)

\* key=lambda x: (x[1].start, x[1].end)
RangeKeyLess(a, b) ==
  a.start < b.start \/ (a.start = b.start /\ a.end < b.end)

\* list.sort is stable: an item goes behind every item whose key is not
\* greater
RECURSIVE InsertFlat(_, _)
InsertFlat(sorted, x) ==
  IF sorted = << >> THEN <<x>>
  ELSE IF RangeKeyLess(x.r, Head(sorted).r) THEN <<x>> \o sorted
  ELSE <<Head(sorted)>> \o InsertFlat(Tail(sorted), x)

RECURSIVE SortFlat(_)
SortFlat(flat) ==
  IF flat = << >> THEN << >>
  ELSE InsertFlat(SortFlat(SubSeq(flat, 1, Len(flat) - 1)), flat[Len(flat)])

NoRanges(groups) == [gi \in 1..Len(groups) |-> << >>]

\* the outcome of a handler
Raised(handler, error) ==
  [handler |-> handler, error |-> error, groups |-> << >>]
Returned(handler, groups) ==
  [handler |-> handler, error |-> NULL, groups |-> groups]
NotCalled == [handler |-> NULL, error |-> NULL, groups |-> << >>]

\* Build result groups, preserving order, dropping empty groups
RECURSIVE BuildGroups(_, _, _)
BuildGroups(groups, adjusted, gi) ==
  IF gi > Len(groups) THEN << >>
  ELSE (IF adjusted[gi] # << >>
        THEN <<SentenceGroup(groups[gi].label, adjusted[gi])>>
        ELSE << >>) \o BuildGroups(groups, adjusted, gi + 1)

\* ---- StrictGapHandler
\* the loop over flat; gap is set where the handler raises
RECURSIVE StrictScan(_, _, _, _)
StrictScan(flat, i, next_expected, adjusted) ==
  IF i > Len(flat)
  THEN [gap |-> FALSE, next_expected |-> next_expected, adjusted |-> adjusted]
  ELSE LET gi == flat[i].gi
           r == flat[i].r
           start == Max(r.start, next_expected)
       IN IF r.end < next_expected
          THEN StrictScan(flat, i + 1, next_expected, adjusted)
          ELSE IF start > r.end
          THEN StrictScan(flat, i + 1, next_expected, adjusted)
          ELSE IF start # next_expected
          THEN [gap |-> TRUE, next_expected |-> next_expected,
                adjusted |-> adjusted]
          ELSE StrictScan(flat, i + 1, r.end + 1,
                          [adjusted EXCEPT
                             ![gi] = Append(@, SentenceRange(start, r.end))])

\* StrictGapHandler.handle without the check for incomplete coverage at
\* the end
StrictHandleNoEndCheck(groups, sentence_count) ==
  IF sentence_count <= 0 THEN Raised("strict", "GapError")
  ELSE IF groups = << >> THEN Raised("strict", "GapError")
  ELSE LET flat == SortFlat(Flatten(groups, 1))
           scan == StrictScan(flat, 1, 0, NoRanges(groups))
       IN IF scan.gap THEN Raised("strict", "GapError")
          ELSE Returned("strict", BuildGroups(groups, scan.adjusted, 1))

\* StrictGapHandler.handle
StrictHandle(groups, sentence_count) ==
  IF sentence_count <= 0 THEN Raised("strict", "GapError")
  ELSE IF groups = << >> THEN Raised("strict", "GapError")
  ELSE LET flat == SortFlat(Flatten(groups, 1))
           scan == StrictScan(flat, 1, 0, NoRanges(groups))
       IN IF scan.gap THEN Raised("strict", "GapError")
          ELSE IF scan.next_expected <= sentence_count - 1
          THEN Raised("strict", "GapError")
          ELSE Returned("strict", BuildGroups(groups, scan.adjusted, 1))

\* ---- RepairingGapHandler
\* last_added is None
NoLast == [gi |-> 0, idx |-> 0]

\* the loop over flat
RECURSIVE RepairScan(_, _, _, _, _)
RepairScan(flat, i, next_expected, adjusted, last_added) ==
  IF i > Len(flat)
  THEN [next_expected |-> next_expected, adjusted |-> adjusted,
        last_added |-> last_added]
  ELSE LET gi == flat[i].gi
           r == flat[i].r
           clipped == Max(r.start, next_expected)
           gap == clipped > next_expected
           start == IF gap /\ last_added = NoLast THEN 0 ELSE clipped
           extended ==
             IF gap /\ last_added # NoLast
             THEN [adjusted EXCEPT
                     ![last_added.gi][last_added.idx].end = clipped - 1]
             ELSE adjusted
       IN IF r.end < next_expected
          THEN RepairScan(flat, i + 1, next_expected, adjusted, last_added)
          ELSE IF clipped > r.end
          THEN RepairScan(flat, i + 1, next_expected, adjusted, last_added)
          ELSE RepairScan(flat, i + 1, r.end + 1,
                          [extended EXCEPT
                             ![gi] = Append(@, SentenceRange(start, r.end))],
                          [gi |-> gi, idx |-> Len(extended[gi]) + 1])

\* RepairingGapHandler.handle that leaves a gap at the end open
RepairHandleNoEndFill(groups, sentence_count) ==
  IF sentence_count <= 0 THEN Raised("repair", "GapError")
  ELSE IF groups = << >> THEN Raised("repair", "GapError")
  ELSE LET flat == SortFlat(Flatten(groups, 1))
           scan == RepairScan(flat, 1, 0, NoRanges(groups), NoLast)
       IN Returned("repair", BuildGroups(groups, scan.adjusted, 1))

\* RepairingGapHandler.handle
RepairHandle(groups, sentence_count) ==
  IF sentence_count <= 0 THEN Raised("repair", "GapError")
  ELSE IF groups = << >> THEN Raised("repair", "GapError")
  ELSE LET max_index == sentence_count - 1
           flat == SortFlat(Flatten(groups, 1))
           scan == RepairScan(flat, 1, 0, NoRanges(groups), NoLast)
           last == scan.last_added
       IN IF scan.next_expected <= max_index
          THEN IF last # NoLast
               THEN Returned("repair",
                      BuildGroups(groups,
                                  [scan.adjusted EXCEPT
                                     ![last.gi][last.idx].end = max_index],
                                  1))
               ELSE Raised("repair", "GapError")
          ELSE Returned("repair", BuildGroups(groups, scan.adjusted, 1))

GapInit ==
  /\ QueueIdle
  /\ \E count \in 0..MaxSentences : args \in GapInputs(count)
  /\ result = NotCalled

\* gap_handler.handle(groups, sentence_count) with the strict handler
CallStrict ==
  /\ result = NotCalled
  /\ result' = StrictHandle(args.groups, args.sentence_count)
  /\ UNCHANGED <<queueVars, args>>

\* gap_handler.handle(groups, sentence_count) with the repairing handler
CallRepair ==
  /\ result = NotCalled
  /\ result' = RepairHandle(args.groups, args.sentence_count)
  /\ UNCHANGED <<queueVars, args>>

GapNext == CallStrict \/ CallRepair

GapSpec == GapInit /\ [][GapNext]_vars


\* the (group, range) positions of a group list whose range contains
\* sentence i
Containing(groups, i) ==
  {p \in {<<g, k>> : g \in 1..Len(groups), k \in 1..MaxSentences + MaxRanges} :
     /\ p[2] <= Len(groups[p[1]].ranges)
     /\ groups[p[1]].ranges[p[2]].start <= i
     /\ i <= groups[p[1]].ranges[p[2]].end}

\* every sentence of the document is in exactly one range of one group, and
\* every range lies inside the document
Tiles(groups, count) ==
  /\ \A i \in 0..(count - 1) : Cardinality(Containing(groups, i)) = 1
  /\ \A g \in 1..Len(groups) : \A k \in 1..Len(groups[g].ranges) :
        /\ 0 <= groups[g].ranges[k].start
        /\ groups[g].ranges[k].start <= groups[g].ranges[k].end
        /\ groups[g].ranges[k].end <= count - 1

\* the ranges of every group are in ascending order and do not overlap
RangesSorted(groups) ==
  \A g \in 1..Len(groups) : \A k \in 1..(Len(groups[g].ranges) - 1) :
     groups[g].ranges[k].end < groups[g].ranges[k + 1].start

EarliestContaining(groups, i) ==
  {p \in Containing(groups, i) :
     \A q \in Containing(groups, i) :
        ~RangeKeyLess(groups[q[1]].ranges[q[2]], groups[p[1]].ranges[p[2]])}

\* C16: the strict handler raises GapError exactly when a sentence index is
\* in no input range, the group list is empty or sentence_count <= 0;
\* otherwise the returned groups cover every index once, and an index that
\* several input ranges contain stays with the earliest of them in
\* (start, end) order.
C16_StrictRaisesIffGap ==
  result.handler = "strict" =>
    /\ result.error = "GapError" <=>
         \/ args.sentence_count <= 0
         \/ args.groups = << >>
         \/ \E i \in 0..(args.sentence_count - 1) :
               Containing(args.groups, i) = {}
    /\ result.error \in {NULL, "GapError"}
    /\ result.error = NULL =>
         /\ Tiles(result.groups, args.sentence_count)
         /\ \A i \in 0..(args.sentence_count - 1) :
              \A p \in Containing(result.groups, i) :
                 \E q \in EarliestContaining(args.groups, i) :
                    args.groups[q[1]].label = result.groups[p[1]].label

\* C16 witness: the input covers every sentence and two groups overlap; the
\* strict handler returned both groups
C16_Witness ==
  /\ result.handler = "strict" /\ result.error = NULL
  /\ Len(result.groups) = 2
  /\ \E i \in 0..(args.sentence_count - 1) :
        \E p, q \in Containing(args.groups, i) : p[1] # q[1]


\* ------------------------------------------------ LLMRepairingGapHandler
MaxLlmSentences == 5  \* sentences of a document given to the LLM handler

\* owners of a sentence: a group of the input, a group the LLM named, none
GroupOwner(gi) == [kind |-> "group", id |-> gi]
NewOwner(k) == [kind |-> "new", id |-> k]
NoOwner == [kind |-> "none", id |-> 0]

_DEFAULT_NEW_TOPIC == <<"Uncategorized">>

\* what the LLM may reply to a gap prompt
LlmAnswers ==
  {"PREVIOUS", "NEXT", "NEW: Misc", "NEW:", "maybe NEXT", "either PREVIOUS or NEXT"}

\* _parse_gap_response on these replies
_parse_gap_response(response) ==
  CASE response = "PREVIOUS" -> [decision |-> "previous", label |-> << >>]
    [] response = "NEXT" -> [decision |-> "next", label |-> << >>]
    [] response = "NEW: Misc" -> [decision |-> "new", label |-> <<"Misc">>]
    [] response = "NEW:" -> [decision |-> "new", label |-> _DEFAULT_NEW_TOPIC]
    [] response = "maybe NEXT" -> [decision |-> "next", label |-> << >>]
    [] OTHER -> [decision |-> "unknown", label |-> << >>]

\* the first loop of _handle: ownership of the covered sentences and the
\* gaps with their neighbours
RECURSIVE OwnershipScan(_, _, _, _, _, _)
OwnershipScan(flat, i, next_expected, ownership, last_owner, gaps) ==
  IF i > Len(flat)
  THEN [next_expected |-> next_expected, ownership |-> ownership,
        last_owner |-> last_owner, gaps |-> gaps]
  ELSE LET gi == flat[i].gi
           r == flat[i].r
           start == Max(r.start, next_expected)
       IN IF r.end < next_expected
          THEN OwnershipScan(flat, i + 1, next_expected, ownership,
                             last_owner, gaps)
          ELSE IF start > r.end
          THEN OwnershipScan(flat, i + 1, next_expected, ownership,
                             last_owner, gaps)
          ELSE OwnershipScan(
                 flat, i + 1, r.end + 1,
                 [si \in DOMAIN ownership |->
                    IF start <= si /\ si <= r.end THEN GroupOwner(gi)
                    ELSE ownership[si]],
                 GroupOwner(gi),
                 IF start > next_expected
                 THEN Append(gaps, [gap_start |-> next_expected,
                                    gap_end |-> start - 1,
                                    prev_owner |-> last_owner,
                                    next_owner |-> GroupOwner(gi)])
                 ELSE gaps)

\* for gap in gaps: for sent_idx in range(gap_start, gap_end + 1): the
\* sentences to resolve, in order, with the neighbours of their gap
RECURSIVE GapSentences(_, _)
GapSentences(gaps, i) ==
  IF i > Len(gaps) THEN << >>
  ELSE [k \in 1..(gaps[i].gap_end - gaps[i].gap_start + 1) |->
          [sentence_index |-> gaps[i].gap_start + k - 1,
           prev_owner |-> gaps[i].prev_owner,
           next_owner |-> gaps[i].next_owner]] \o GapSentences(gaps, i + 1)

\* _indices_to_ranges over the sentences an owner holds, from index si on
RECURSIVE _indices_to_ranges(_, _, _, _)
_indices_to_ranges(ownership, owner, si, count) ==
  IF si >= count THEN << >>
  ELSE IF ownership[si] # owner
  THEN _indices_to_ranges(ownership, owner, si + 1, count)
  ELSE LET run == {e \in si..(count - 1) :
                     \A j \in si..e : ownership[j] = owner}
           end == CHOOSE e \in run : \A f \in run : f <= e
       IN <<SentenceRange(si, end)>> \o
          _indices_to_ranges(ownership, owner, end + 1, count)

\* the result list: the input groups that own a sentence, then the new
\* groups in the order they were created
RECURSIVE ExistingGroups(_, _, _, _)
ExistingGroups(groups, ownership, count, gi) ==
  IF gi > Len(groups) THEN << >>
  ELSE LET ranges == _indices_to_ranges(ownership, GroupOwner(gi), 0, count)
       IN (IF ranges # << >>
           THEN <<SentenceGroup(groups[gi].label, ranges)>> ELSE << >>)
          \o ExistingGroups(groups, ownership, count, gi + 1)

RECURSIVE NewGroups(_, _, _, _)
NewGroups(labels, ownership, count, k) ==
  IF k > Len(labels) THEN << >>
  ELSE LET ranges == _indices_to_ranges(ownership, NewOwner(k), 0, count)
       IN (IF ranges # << >>
           THEN <<SentenceGroup(labels[k], ranges)>> ELSE << >>)
          \o NewGroups(labels, ownership, count, k + 1)

\* the handler before the call
LlmIdle ==
  [pc |-> "idle", ownership |-> << >>, todo |-> << >>, new_group_order |-> << >>,
   asked |-> 0, answers |-> << >>, error |-> NULL, groups |-> << >>]

\* the documents and group lists the LLM handler is called with; sentences
\* is the splitter's list, of length sentence_count
LlmGapInputs(count) == {a \in GapInputs(count) : a.groups # << >>}

LlmGapInit ==
  /\ QueueIdle
  /\ \E count \in 1..MaxLlmSentences : args \in LlmGapInputs(count)
  /\ result = LlmIdle

\* _handle up to the loop over the gaps
LlmScan ==
  /\ result.pc = "idle"
  /\ LET count == args.sentence_count
         flat == SortFlat(Flatten(args.groups, 1))
         scan == OwnershipScan(flat, 1, 0, [si \in 0..(count - 1) |-> NoOwner],
                               NoOwner, << >>)
         gaps == IF scan.next_expected <= count - 1
                 THEN Append(scan.gaps, [gap_start |-> scan.next_expected,
                                         gap_end |-> count - 1,
                                         prev_owner |-> scan.last_owner,
                                         next_owner |-> NoOwner])
                 ELSE scan.gaps
     IN IF count <= 0 \/ args.groups = << >>
        THEN result' = [result EXCEPT !.pc = "raised", !.error = "GapError"]
        ELSE result' = [result EXCEPT !.pc = "resolve",
                                      !.ownership = scan.ownership,
                                      !.todo = GapSentences(gaps, 1)]
  /\ UNCHANGED <<queueVars, args>>

\* the owner id of a label the LLM named: the one it has, or the next new one
LabelIndex(labels, label) ==
  IF \E k \in 1..Len(labels) : labels[k] = label
  THEN CHOOSE k \in 1..Len(labels) : labels[k] = label
  ELSE Len(labels) + 1

\* _resolve_gap_sentence_owner for the next gap sentence without both
\* neighbours: no question is asked
ResolveByNeighbour ==
  /\ result.pc = "resolve" /\ result.todo # << >>
  /\ LET s == Head(result.todo)
     IN /\ s.prev_owner = NoOwner \/ s.next_owner = NoOwner
        /\ IF s.prev_owner = NoOwner /\ s.next_owner = NoOwner
           THEN result' = [result EXCEPT !.pc = "raised", !.error = "GapError"]
           ELSE result' =
                  [result EXCEPT
                     !.todo = Tail(@),
                     !.ownership[s.sentence_index] =
                        IF s.prev_owner = NoOwner THEN s.next_owner
                        ELSE s.prev_owner]
  /\ UNCHANGED <<queueVars, args>>

\* _resolve_gap_sentence_owner for the next gap sentence between two
\* groups: client.call(prompt) and the reply parsed
ResolveByLlm(response) ==
  /\ result.pc = "resolve" /\ result.todo # << >>
  /\ LET s == Head(result.todo)
         parsed == _parse_gap_response(response)
         k == LabelIndex(result.new_group_order, parsed.label)
     IN /\ s.prev_owner # NoOwner /\ s.next_owner # NoOwner
        /\ result' =
             [result EXCEPT
                !.todo = Tail(@),
                !.asked = @ + 1,
                !.answers = Append(@, response),
                !.new_group_order =
                   IF parsed.decision = "new" /\ k > Len(@)
                   THEN Append(@, parsed.label) ELSE @,
                !.ownership[s.sentence_index] =
                   CASE parsed.decision = "previous" -> s.prev_owner
                     [] parsed.decision = "next" -> s.next_owner
                     [] parsed.decision = "new" -> NewOwner(k)
                     [] OTHER -> s.prev_owner]
  /\ UNCHANGED <<queueVars, args>>

\* client.call raises: GapError("LLM call failed during gap repair")
ResolveLlmFails ==
  /\ result.pc = "resolve" /\ result.todo # << >>
  /\ Head(result.todo).prev_owner # NoOwner
  /\ Head(result.todo).next_owner # NoOwner
  /\ result' = [result EXCEPT !.pc = "raised", !.error = "GapError",
                              !.asked = @ + 1]
  /\ UNCHANGED <<queueVars, args>>

\* every gap sentence resolved: the groups are built and returned
LlmReturn ==
  /\ result.pc = "resolve" /\ result.todo = << >>
  /\ LET count == args.sentence_count
     IN IF \E si \in 0..(count - 1) : result.ownership[si] = NoOwner
        THEN result' = [result EXCEPT !.pc = "raised", !.error = "GapError"]
        ELSE result' =
               [result EXCEPT
                  !.pc = "done",
                  !.groups =
                     ExistingGroups(args.groups, result.ownership, count, 1) \o
                     NewGroups(result.new_group_order, result.ownership,
                               count, 1)]
  /\ UNCHANGED <<queueVars, args>>

LlmGapNext ==
  \/ LlmScan
  \/ ResolveByNeighbour
  \/ \E response \in LlmAnswers : ResolveByLlm(response)
  \/ ResolveLlmFails
  \/ LlmReturn

LlmGapSpec == LlmGapInit /\ [][LlmGapNext]_vars

\* the input of the example: one group A with range 0-1, five sentences
ExampleGroups == <<SentenceGroup(<<"A">>, <<SentenceRange(0, 1)>>)>>

\* C17: for the groups [A: 0-1] with sentence_count 5 and an LLM that always
\* answers "NEW: Misc" the LLM handler asks exactly one question for each of
\* the uncovered sentences 2, 3 and 4 and returns the groups ("A",) with
\* range (0,1) and ("Misc",) with range (2,4).
C17_LlmRepairExample ==
  (/\ args.groups = ExampleGroups /\ args.sentence_count = 5
   /\ result.pc = "done"
   /\ \A i \in 1..Len(result.answers) : result.answers[i] = "NEW: Misc") =>
    /\ result.asked = 3
    /\ result.groups =
         <<SentenceGroup(<<"A">>, <<SentenceRange(0, 1)>>),
           SentenceGroup(<<"Misc">>, <<SentenceRange(2, 4)>>)>>


\* ------------------------------------------------ HTML cleaners, OffsetMapping
MaxText == 4  \* characters of a text given to a cleaner

\* the characters that matter to the tag scanners and the splitter: tag open,
\* tag close, a letter, a double quote, a newline
Chars == {"<", ">", "a", "\"", "\n"}

Texts == UNION {[1..n -> Chars] : n \in 0..MaxText}

\* text[k] of the code, offsets from 0
CharAt(text, k) == text[k + 1]

\* text.find(ch, from): the first offset >= from holding ch, or -1
Find(text, ch, from) ==
  LET hits == {k \in from..(Len(text) - 1) : CharAt(text, k) = ch}
  IN IF hits = {} THEN -1 ELSE CHOOSE k \in hits : \A h \in hits : k <= h

\* _HTML_TAG_PATTERN tried at offset i with its body scanned from offset k:
\* the end of the match, or -1.  The body takes any character but > and a
\* quote, or a whole quoted string; an unclosed quote or the end of the text
\* before > is no match.
RECURSIVE TagBodyEnd(_, _)
TagBodyEnd(text, k) ==
  IF k >= Len(text) THEN -1
  ELSE IF CharAt(text, k) = ">" THEN k + 1
  ELSE IF CharAt(text, k) = "\""
  THEN LET q == Find(text, "\"", k + 1)
       IN IF q < 0 THEN -1 ELSE TagBodyEnd(text, q + 1)
  ELSE TagBodyEnd(text, k + 1)

TagMatchEnd(text, i) ==
  IF CharAt(text, i) # "<" THEN -1 ELSE TagBodyEnd(text, i + 1)

\* _HTML_TAG_PATTERN.finditer(text): the matches from offset i on, left to
\* right, without overlap
RECURSIVE _HTML_TAG_PATTERN(_, _)
_HTML_TAG_PATTERN(text, i) ==
  IF i >= Len(text) THEN << >>
  ELSE LET e == TagMatchEnd(text, i)
       IN IF e >= 0 THEN <<[start |-> i, end |-> e]>> \o _HTML_TAG_PATTERN(text, e)
          ELSE _HTML_TAG_PATTERN(text, i + 1)

\* _TagSpanParser.spans after feed and close: a start tag opens at < followed
\* by a letter and runs to the next >; a < not followed by a letter, or
\* without a later >, is text
RECURSIVE _TagSpanParser(_, _)
_TagSpanParser(text, i) ==
  IF i >= Len(text) THEN << >>
  ELSE LET j == IF CharAt(text, i) = "<" /\ i + 1 < Len(text)
                   /\ CharAt(text, i + 1) = "a"
                THEN Find(text, ">", i + 2) ELSE -1
       IN IF j >= 0
          THEN <<[start |-> i, end |-> j + 1]>> \o _TagSpanParser(text, j + 1)
          ELSE _TagSpanParser(text, i + 1)

OffsetSegment(clean_offset, original_offset, length) ==
  [clean_offset |-> clean_offset, original_offset |-> original_offset,
   length |-> length]

OffsetMapping(segments, original_length, clean_length) ==
  [segments |-> segments, original_length |-> original_length,
   clean_length |-> clean_length]

\* text[a:b]
Slice(text, a, b) == SubSeq(text, a + 1, b)

\* the loop over the tag spans and the text after the last tag, shared by the
\* two cleaners: the segments kept and the clean text
RECURSIVE StripSpans(_, _, _, _, _, _)
StripSpans(text, spans, i, clean_offset, last_end, acc) ==
  IF i > Len(spans)
  THEN IF last_end < Len(text)
       THEN [segments |-> Append(acc.segments,
                                 OffsetSegment(clean_offset, last_end,
                                               Len(text) - last_end)),
             clean_text |-> acc.clean_text \o Slice(text, last_end, Len(text))]
       ELSE acc
  ELSE LET tag_start == spans[i].start
           tag_end == spans[i].end
           seg_length == tag_start - last_end
           new_end == IF tag_end > last_end THEN tag_end ELSE last_end
       IN IF tag_start > last_end
          THEN StripSpans(text, spans, i + 1, clean_offset + seg_length, new_end,
                 [segments |-> Append(acc.segments,
                                      OffsetSegment(clean_offset, last_end,
                                                    seg_length)),
                  clean_text |-> acc.clean_text \o
                                   Slice(text, last_end, tag_start)])
          ELSE StripSpans(text, spans, i + 1, clean_offset, new_end, acc)

Cleaned(cleaner, clean_text, mapping) ==
  [cleaner |-> cleaner, clean_text |-> clean_text, mapping |-> mapping]

NotCleaned == Cleaned("none", << >>, OffsetMapping(<< >>, 0, 0))

\* TagStripCleaner.clean
TagStripClean(text) ==
  IF text = << >>
  THEN Cleaned("TagStripCleaner", text, OffsetMapping(<< >>, 0, 0))
  ELSE LET out == StripSpans(text, _HTML_TAG_PATTERN(text, 0), 1, 0, 0,
                             [segments |-> << >>, clean_text |-> << >>])
       IN Cleaned("TagStripCleaner", out.clean_text,
                  OffsetMapping(out.segments, Len(text), Len(out.clean_text)))

\* HTMLParserTagStripCleaner.clean
HTMLParserTagStripClean(text) ==
  IF text = << >>
  THEN Cleaned("HTMLParserTagStripCleaner", text, OffsetMapping(<< >>, 0, 0))
  ELSE LET spans == _TagSpanParser(text, 0)
           out == StripSpans(text, spans, 1, 0, 0,
                             [segments |-> << >>, clean_text |-> << >>])
       IN IF spans = << >>
          THEN Cleaned("HTMLParserTagStripCleaner", text,
                       OffsetMapping(<<OffsetSegment(0, 0, Len(text))>>,
                                     Len(text), Len(text)))
          ELSE Cleaned("HTMLParserTagStripCleaner", out.clean_text,
                       OffsetMapping(out.segments, Len(text),
                                     Len(out.clean_text)))

\* OffsetMapping.to_original; -1 stands for ValueError
to_original(mapping, clean_pos) ==
  IF clean_pos < 0 \/ clean_pos > mapping.clean_length THEN -1
  ELSE IF clean_pos = mapping.clean_length THEN mapping.original_length
  ELSE IF mapping.segments = << >> THEN -1
  ELSE LET n == Len(mapping.segments)
           \* bisect_right(offsets, clean_pos) - 1; index -1 is the last one
           right == Cardinality({k \in 1..n :
                                   mapping.segments[k].clean_offset <= clean_pos})
           seg == mapping.segments[IF right = 0 THEN n ELSE right]
       IN seg.original_offset + (clean_pos - seg.clean_offset)

CleanInit ==
  /\ QueueIdle
  /\ args \in [text : Texts]
  /\ result = NotCleaned

CleanTagStrip ==
  /\ result = NotCleaned
  /\ result' = TagStripClean(args.text)
  /\ UNCHANGED <<queueVars, args>>

CleanHTMLParser ==
  /\ result = NotCleaned
  /\ result' = HTMLParserTagStripClean(args.text)
  /\ UNCHANGED <<queueVars, args>>

CleanNext == CleanTagStrip \/ CleanHTMLParser

CleanSpec == CleanInit /\ [][CleanNext]_vars

\* C18: for the mapping a cleaner returns, to_original is non-decreasing over
\* the positions 0..clean_length, to_original(0) = 0 and
\* to_original(clean_length) = original_length.
C18_OffsetRoundTrip ==
  result.cleaner # "none" =>
    LET m == result.mapping
    IN /\ \A p, q \in 0..m.clean_length :
            p <= q => to_original(m, p) <= to_original(m, q)
       /\ to_original(m, 0) = 0
       /\ to_original(m, m.clean_length) = m.original_length


\* ------------------------------------------------ Pipeline.run
Sentence(index, start, end, text) ==
  [index |-> index, start |-> start, end |-> end, text |-> text]

isspace(ch) == ch \in {"\n", " "}

\* _trim_whitespace
RECURSIVE TrimLeft(_, _, _)
TrimLeft(text, start, end) ==
  IF start < end /\ isspace(CharAt(text, start))
  THEN TrimLeft(text, start + 1, end) ELSE start

RECURSIVE TrimRight(_, _, _)
TrimRight(text, start, end) ==
  IF end > start /\ isspace(CharAt(text, end - 1))
  THEN TrimRight(text, start, end - 1) ELSE end

_trim_whitespace(text, start, end) ==
  LET s_start == TrimLeft(text, start, end)
  IN [start |-> s_start, end |-> TrimRight(text, s_start, end)]

\* the end of the run of newlines that begins at offset i
RECURSIVE NewlinesEnd(_, _)
NewlinesEnd(text, i) ==
  IF i < Len(text) /\ CharAt(text, i) = "\n" THEN NewlinesEnd(text, i + 1) ELSE i

AppendSentence(acc, text, start, end) ==
  LET t == _trim_whitespace(text, start, end)
  IN IF t.start < t.end
     THEN Append(acc, Sentence(Len(acc), t.start, t.end,
                               Slice(text, t.start, t.end)))
     ELSE acc

\* RegexSentenceSplitter.split from offset i on, the current segment
\* beginning at start; the boundaries of these texts are the runs of newlines
RECURSIVE SplitFrom(_, _, _, _)
SplitFrom(text, i, start, acc) ==
  IF i >= Len(text) THEN AppendSentence(acc, text, start, Len(text))
  ELSE IF CharAt(text, i) = "\n"
  THEN LET e == NewlinesEnd(text, i)
       IN SplitFrom(text, e, e, AppendSentence(acc, text, start, i))
  ELSE SplitFrom(text, i + 1, start, acc)

RegexSentenceSplitter(text) ==
  IF \A k \in 1..Len(text) : isspace(text[k]) THEN << >>
  ELSE SplitFrom(text, 0, 0, << >>)

\* ---- joiners.py
MinOf(S) == CHOOSE x \in S : \A y \in S : x <= y
MaxOf(S) == CHOOSE x \in S : \A y \in S : x >= y

_touches_or_overlaps(left, right) ==
  IF left.ranges = << >> \/ right.ranges = << >> THEN FALSE
  ELSE MinOf({right.ranges[i].start : i \in 1..Len(right.ranges)}) <=
         MaxOf({left.ranges[i].end : i \in 1..Len(left.ranges)}) + 1

\* sorted(ranges, key=(start, end)), stable
RECURSIVE SortRanges(_)
SortRanges(ranges) ==
  IF ranges = << >> THEN << >>
  ELSE LET rest == SortRanges(SubSeq(ranges, 1, Len(ranges) - 1))
           r == ranges[Len(ranges)]
           before == {k \in 1..Len(rest) :
                        \/ rest[k].start < r.start
                        \/ rest[k].start = r.start /\ rest[k].end <= r.end}
           n == Cardinality(before)
       IN SubSeq(rest, 1, n) \o <<r>> \o SubSeq(rest, n + 1, Len(rest))

RECURSIVE Coalesce(_, _, _)
Coalesce(ordered, i, coalesced) ==
  IF i > Len(ordered) THEN coalesced
  ELSE LET last == coalesced[Len(coalesced)]
           current == ordered[i]
       IN IF current.start <= last.end + 1
          THEN Coalesce(ordered, i + 1,
                        [coalesced EXCEPT ![Len(coalesced)] =
                           SentenceRange(last.start,
                                         Max(last.end, current.end))])
          ELSE Coalesce(ordered, i + 1, Append(coalesced, current))

_merge_ranges(ranges) ==
  IF ranges = << >> THEN << >>
  ELSE LET ordered == SortRanges(ranges)
       IN Coalesce(ordered, 2, <<ordered[1]>>)

\* AdjacentSameTopicJoiner.join
RECURSIVE JoinFrom(_, _, _)
JoinFrom(groups, i, merged) ==
  IF i > Len(groups) THEN merged
  ELSE LET prev == merged[Len(merged)]
           group == groups[i]
       IN IF prev.label = group.label /\ _touches_or_overlaps(prev, group)
          THEN JoinFrom(groups, i + 1,
                        [merged EXCEPT ![Len(merged)] =
                           SentenceGroup(prev.label,
                                         _merge_ranges(prev.ranges \o group.ranges))])
          ELSE JoinFrom(groups, i + 1, Append(merged, group))

AdjacentSameTopicJoiner(groups) ==
  IF groups = << >> THEN << >> ELSE JoinFrom(groups, 2, <<groups[1]>>)

\* " ".join(texts)
RECURSIVE JoinTexts(_, _, _)
JoinTexts(sentences, a, b) ==
  IF a > b THEN << >>
  ELSE IF a = b THEN sentences[a + 1].text
  ELSE sentences[a + 1].text \o <<" ">> \o JoinTexts(sentences, a + 1, b)

\* _join_sentence_range; the ranges of the groups lie within the sentences
_join_sentence_range(sentence_range, sentences, joined_sentences) ==
  Sentence(Len(joined_sentences),
           sentences[sentence_range.start + 1].start,
           sentences[sentence_range.end + 1].end,
           JoinTexts(sentences, sentence_range.start, sentence_range.end))

\* the inner loop of join_sentences_by_groups over the sorted ranges of a group
RECURSIVE JoinRanges(_, _, _, _, _)
JoinRanges(ranges, i, sentences, joined_sentences, remapped_ranges) ==
  IF i > Len(ranges)
  THEN [joined_sentences |-> joined_sentences,
        remapped_ranges |-> remapped_ranges]
  ELSE LET joined_sentence ==
             _join_sentence_range(ranges[i], sentences, joined_sentences)
       IN JoinRanges(ranges, i + 1, sentences,
                     Append(joined_sentences, joined_sentence),
                     Append(remapped_ranges,
                            SentenceRange(joined_sentence.index,
                                          joined_sentence.index)))

RECURSIVE join_sentences_by_groups(_, _, _, _, _)
join_sentences_by_groups(groups, gi, sentences, joined, remapped) ==
  IF gi > Len(groups)
  THEN [sentences |-> joined, groups |-> remapped]
  ELSE LET out == JoinRanges(SortRanges(groups[gi].ranges), 1, sentences,
                             joined, << >>)
       IN join_sentences_by_groups(
            groups, gi + 1, sentences, out.joined_sentences,
            Append(remapped,
                   SentenceGroup(groups[gi].label, out.remapped_ranges)))

\* MappingOffsetRestorer.restore
MappingOffsetRestorer(sentences, mapping) ==
  [k \in 1..Len(sentences) |->
     Sentence(sentences[k].index,
              to_original(mapping, sentences[k].start),
              to_original(mapping, sentences[k].end),
              sentences[k].text)]

\* ---- the run
\* the texts given to the pipeline: one-letter sentences on lines of their
\* own, with a tag in front of at most one of them
RECURSIVE LinesText(_, _, _)
LinesText(n, k, tagged) ==
  IF k > n THEN << >>
  ELSE (IF k > 1 THEN <<"\n">> ELSE << >>)
       \o (IF k = tagged THEN <<"<", "a", ">">> ELSE << >>)
       \o <<"a">> \o LinesText(n, k + 1, tagged)

PipelineTexts ==
  {LinesText(n, 1, tagged) : n \in 1..MaxSentences, tagged \in 0..MaxSentences}

TopicLabels == {<<"A">>, <<"B">>}

PipelineInputs ==
  [text : PipelineTexts,
   gap_handler : {"strict", "repairing"},
   joiner : BOOLEAN,
   html_cleaner : BOOLEAN]

PipelineIdle ==
  [pc |-> "html_clean", text |-> << >>, mapping |-> OffsetMapping(<< >>, 0, 0),
   sentences |-> << >>, groups |-> << >>, error |-> NULL]

PipelineInit ==
  /\ QueueIdle
  /\ args \in PipelineInputs
  /\ result = PipelineIdle

\* Stage 0 (optional): clean HTML tags
StageHtmlClean ==
  /\ result.pc = "html_clean"
  /\ LET cleaned == TagStripClean(args.text)
     IN result' = [result EXCEPT
                     !.pc = "split",
                     !.text = IF args.html_cleaner THEN cleaned.clean_text
                              ELSE args.text,
                     !.mapping = IF args.html_cleaner THEN cleaned.mapping ELSE @]
  /\ UNCHANGED <<queueVars, args>>

\* Stage 1: split into sentences
StageSplit ==
  /\ result.pc = "split"
  /\ result' = [result EXCEPT !.pc = "llm.query",
                              !.sentences = RegexSentenceSplitter(result.text)]
  /\ UNCHANGED <<queueVars, args>>

\* Stages 2-4: mark, query the LLM, parse its response into groups
StageQueryParse(lines, labels) ==
  /\ result.pc = "llm.query"
  /\ LET parsed == GroupsOfLines(lines)
     IN IF parsed = << >>
        THEN result' = [result EXCEPT !.pc = "raised", !.error = "ParseError"]
        ELSE result' =
               [result EXCEPT
                  !.pc = "gap_handler",
                  !.groups = [g \in 1..Len(parsed) |->
                                SentenceGroup(labels[g], parsed[g].ranges)]]
  /\ UNCHANGED <<queueVars, args>>

\* Stage 5: handle gaps
StageGapHandler ==
  /\ result.pc = "gap_handler"
  /\ LET out == IF args.gap_handler = "strict"
                THEN StrictHandle(result.groups, Len(result.sentences))
                ELSE RepairHandle(result.groups, Len(result.sentences))
     IN IF out.error # NULL
        THEN result' = [result EXCEPT !.pc = "raised", !.error = out.error]
        ELSE result' = [result EXCEPT !.pc = "join", !.groups = out.groups]
  /\ UNCHANGED <<queueVars, args>>

\* Stage 7 (optional): join adjacent groups and rewrite the sentences
StageJoin ==
  /\ result.pc = "join"
  /\ LET joined == join_sentences_by_groups(
                     AdjacentSameTopicJoiner(result.groups), 1,
                     result.sentences, << >>, << >>)
     IN result' = [result EXCEPT
                     !.pc = "offset_restore",
                     !.sentences = IF args.joiner THEN joined.sentences ELSE @,
                     !.groups = IF args.joiner THEN joined.groups ELSE @]
  /\ UNCHANGED <<queueVars, args>>

\* Stage 8 (optional): restore original-text offsets, and return
StageOffsetRestore ==
  /\ result.pc = "offset_restore"
  /\ result' = [result EXCEPT
                  !.pc = "done",
                  !.sentences =
                     IF args.html_cleaner /\ @ # << >>
                     THEN MappingOffsetRestorer(@, result.mapping) ELSE @]
  /\ UNCHANGED <<queueVars, args>>

PipelineNext ==
  \/ StageHtmlClean
  \/ StageSplit
  \/ \E lines \in {l \in RangeLines(Len(result.sentences)) :
                     {l[i].group : i \in 1..Len(l)} =
                       1..Cardinality({l[i].group : i \in 1..Len(l)})} :
       \E labels \in [1..MaxGroups -> TopicLabels] :
         StageQueryParse(lines, labels)
  \/ StageGapHandler
  \/ StageJoin
  \/ StageOffsetRestore

PipelineSpec == PipelineInit /\ [][PipelineNext]_vars

\* C19: in every result the pipeline returns, with or without the joiner and
\* the offset restorer, two sentences s1, s2 with s1.index < s2.index have
\* s1.start <= s2.start and s1.end <= s2.end, also when the joiner rewrote
\* the sentences from groups whose ranges interleave.
C19_OrderPreserved ==
  result.pc = "done" =>
    \A i, j \in 1..Len(result.sentences) :
      result.sentences[i].index < result.sentences[j].index =>
        /\ result.sentences[i].start <= result.sentences[j].start
        /\ result.sentences[i].end <= result.sentences[j].end


\* ------------------------------------------------ worker shutdown
\* _signal_handler: SIGINT or SIGTERM delivered to the worker process
Signal(w) ==
  /\ pc[w] # "stopped"
  /\ running' = [running EXCEPT ![w] = FALSE]
  /\ UNCHANGED <<subs, queue, clock, nextId, nsubs, pc, idx, task, err>>
  /\ UNCHANGED <<llm_cache, caller, libVars>>

\* one worker process, the signals sent to it and one submission to work on
ShutdownNext ==
  \/ WorkerStep(1, {"boom"})
  \/ Signal(1)
  \/ nsubs = 0 /\ Submit

ShutdownSpec == Init /\ [][ShutdownNext]_vars

\* the worker process keeps running: a handler returns or raises, the
\* database answers, a sleep ends
ShutdownFairSpec == ShutdownSpec /\ WF_vars(WorkerStep(1, {"boom"}))

\* the positions of process_task
Executing ==
  {"process", "load", "handler", "done_q", "done_s", "fail_q", "fail_s"}

\* the queue entries worker w holds in status processing
HeldBy(w) == {e \in queue : e.status = "processing" /\ e.worker_id = w}

\* the entry of the task worker w works on
EntryOfTask(q, w) == {e \in q : e.id = task[w].id}

\* once the flag is down in process_task the worker stays with its task until
\* the loop ends, and the entry of the task is completed or failed by then
ShutdownStep ==
  \A w \in Workers :
    /\ (~running[w] /\ pc[w] \in Executing) =>
         /\ pc'[w] \in Executing \cup {"stopped"}
         /\ pc'[w] \in Executing => task'[w] = task[w]
         /\ pc'[w] = "stopped" =>
              \A e \in EntryOfTask(queue', w) :
                e.status \in {"completed", "failed"}
    /\ pc[w] = "stopped" =>
         /\ pc'[w] = "stopped"
         /\ \A e \in queue' :
              (e.status # "pending" /\ e.worker_id = w) => e \in queue

\* C20: a signal that arrives while the worker executes a task lets the
\* worker finish the task (its entry reaches completed or failed); the
\* worker claims no further entry, its run loop terminates, and a worker
\* that has shut down holds no entry in status processing.
C20_GracefulShutdown ==
  /\ [][ShutdownStep]_vars
  /\ \A w \in Workers :
       (~running[w] /\ pc[w] \in Executing) ~> (pc[w] = "stopped")
  /\ [](\A w \in Workers : pc[w] = "stopped" => HeldBy(w) = {})

\* a worker stopped by a signal after it finished a task, with an entry left
\* that it would have claimed next
C20_Witness ==
  /\ pc[1] = "stopped"
  /\ \E e \in queue : e.status \in {"completed", "failed"} /\ e.worker_id = 1
  /\ \E e \in queue :
       /\ e.status = "pending"
       /\ _dependencies_met(subs, e.task_type, e.submission_id)


\* ------------------------------------------------ claim_task, once more
\* C21: whenever the queue holds a pending entry whose prerequisites are
\* all completed on its submission, a claim_task call by a worker (no other
\* worker active) returns an entry whose prerequisites are completed and
\* does not return None, also when older pending entries with unmet
\* prerequisites exist for the same task type.
C21_EligibleEntryIsClaimed ==
  (WorkersIdle /\ \E e \in queue : Eligible(subs, e)) =>
    \A r \in claim_task(queue, subs, 1, 1) :
       /\ r # NoTask
       /\ PrerequisitesCompleted(subs, r.task_type, r.submission_id)


\* C22: a queue entry whose task has a prerequisite that is not completed
\* on its submission is pending; it is in no reachable state seen with
\* status processing or with a worker_id set.
C22_UnmetStaysPending ==
  \A e \in queue :
     ~PrerequisitesCompleted(subs, e.task_type, e.submission_id) =>
        /\ e.status = "pending"
        /\ e.worker_id = NULL


\* the fields the claim and the release of claim_task may write
ClaimFields == {"status", "started_at", "worker_id"}

SameBut(a, b, fields) == \A f \in DOMAIN a \ fields : a[f] = b[f]

\* C23: when claim_task picked an entry whose prerequisites are not met it
\* releases it: afterwards the entry is pending with started_at and
\* worker_id null and with retry_count, priority, created_at, error and
\* completed_at as before the claim, and claim_task does not return it.
C23_ReleaseFrame ==
  /\ [][\A w \in Workers :
          /\ (pc[w] = "claim" /\ pc'[w] = "deps") =>
               SameBut(EntryOf(queue', task'[w].id),
                       EntryOf(queue, task'[w].id), ClaimFields)
          /\ pc[w] = "release" =>
               /\ pc'[w] \in {"release", "claim"}
               /\ pc'[w] = "claim" =>
                    LET before == EntryOf(queue, task[w].id)
                        after == EntryOf(queue', task[w].id)
                    IN /\ Has(queue', task[w].id)
                       /\ after.status = "pending"
                       /\ after.started_at = NULL
                       /\ after.worker_id = NULL
                       /\ SameBut(after, before, ClaimFields)
                       /\ task'[w] = NoTask
                       /\ idx'[w] # idx[w]]_vars
  /\ [](WorkersIdle =>
          \A r \in claim_task(queue, subs, 1, 1) \ {NoTask} :
             _dependencies_met(subs, r.task_type, r.submission_id))

\* a worker has released the entry of the task type its loop just left
C23_Witness ==
  \E w \in Workers :
    /\ pc[w] = "claim" /\ idx[w] > 1 /\ task[w] = NoTask
    /\ \E e \in Candidates(queue, ClaimOrder[idx[w] - 1]) :
         /\ ~_dependencies_met(subs, e.task_type, e.submission_id)
         /\ e.retry_count = 0


\* ------------------------------------------------ process_task alone
\* one worker and one submission; a handler returns or raises, with a
\* message or with none (str(e) = "")
ProcessNext ==
  \/ WorkerStep(1, HandlerErrors)
  \/ nsubs = 0 /\ Submit

ProcessSpec == Init /\ [][ProcessNext]_vars

\* C24: when process_task returns for a claimed entry, and no admin
\* operation touched the submission meanwhile, the status of the queue entry
\* and tasks[task_type].status of the submission are equal: completed if the
\* handler returned, failed with the same error string in both if it raised.
C24_QueueAndSubmissionAgree ==
  [][\A w \in Workers :
       (pc[w] \in {"done_s", "fail_s"} /\ pc'[w] # pc[w]) =>
          LET entry == EntryOf(queue', task[w].id)
              state == subs'[task[w].submission_id].tasks[task[w].task_type]
          IN /\ entry.status = state.status
             /\ pc[w] = "done_s" => entry.status = "completed"
             /\ pc[w] = "fail_s" =>
                  /\ entry.status = "failed"
                  /\ entry.error = err[w]
                  /\ state.error = entry.error]_vars


\* ------------------------------------------------ group emission
\* the position of a label among the labels of the input groups
InputIndex(groups, label) ==
  CHOOSE g \in 1..Len(groups) : groups[g].label = label

\* the returned groups are input groups, in the order of the input
KeepsInputOrder(input, output) ==
  /\ \A k \in 1..Len(output) :
       \E g \in 1..Len(input) : input[g].label = output[k].label
  /\ \A k, m \in 1..Len(output) :
       k < m => InputIndex(input, output[k].label) <
                  InputIndex(input, output[m].label)

\* no two ranges of a group touch or overlap
Coalesced(group) ==
  \A i, j \in 1..Len(group.ranges) :
    i < j => group.ranges[j].start > group.ranges[i].end + 1

\* C25: the groups a gap handler returns keep the relative order of the
\* input groups, none of them has an empty range tuple, and inside every
\* returned group the ranges are coalesced into maximal contiguous runs.
C25_GroupEmission ==
  (result.handler # NULL /\ result.error = NULL) =>
    /\ KeepsInputOrder(args.groups, result.groups)
    /\ \A k \in 1..Len(result.groups) :
         /\ result.groups[k].ranges # << >>
         /\ Coalesced(result.groups[k])


\* ------------------------------------------------ SizeBasedChunker
MaxChunkText == 5  \* characters of a tagged text given to the chunker
MaxChars == 3      \* largest max_chars of a chunker

ChunkChars == {"a", "b", "\n"}
ChunkTexts(n) == [1..n -> ChunkChars]

\* str.split("\n")
RECURSIVE SplitLines(_)
SplitLines(text) ==
  IF \A k \in 1..Len(text) : text[k] # "\n" THEN <<text>>
  ELSE LET k == MinOf({j \in 1..Len(text) : text[j] = "\n"})
       IN <<SubSeq(text, 1, k - 1)>> \o SplitLines(SubSeq(text, k + 1, Len(text)))

\* "\n".join(lines)
RECURSIVE JoinLines(_)
JoinLines(lines) ==
  IF lines = << >> THEN << >>
  ELSE IF Len(lines) = 1 THEN lines[1]
  ELSE lines[1] \o <<"\n">> \o JoinLines(Tail(lines))

MarkedText(tagged_text, sentence_count) ==
  [tagged_text |-> tagged_text, sentence_count |-> sentence_count]

\* line_len + (1 if current_lines else 0)
AddedCharsNoSeparator(line, current_lines) == Len(line)
AddedChars(line, current_lines) ==
  Len(line) + (IF current_lines # << >> THEN 1 ELSE 0)

ChunkIdle ==
  [pc |-> "start", lines |-> << >>, k |-> 1, current_lines |-> << >>,
   current_chars |-> 0, chunks |-> << >>]

ChunkInit ==
  /\ QueueIdle
  /\ \E n \in 0..MaxChunkText, m \in 1..MaxChars :
       \E text \in ChunkTexts(n) :
         args = [marked_text |-> MarkedText(text, Len(SplitLines(text))),
                 max_chars |-> m]
  /\ result = ChunkIdle

\* the guard on the length and tagged_text.split("\n")
ChunkEnter ==
  /\ result.pc = "start"
  /\ result' =
       IF Len(args.marked_text.tagged_text) <= args.max_chars
       THEN [result EXCEPT !.pc = "returned", !.chunks = <<args.marked_text>>]
       ELSE [result EXCEPT !.pc = "loop",
                           !.lines = SplitLines(args.marked_text.tagged_text)]
  /\ UNCHANGED <<queueVars, args>>

\* one iteration of the loop over the lines
ChunkLine ==
  /\ result.pc = "loop"
  /\ result.k <= Len(result.lines)
  /\ LET line == result.lines[result.k]
         added_chars == AddedChars(line, result.current_lines)
     IN result' =
          IF /\ result.current_lines # << >>
             /\ result.current_chars + added_chars > args.max_chars
          THEN [result EXCEPT
                  !.chunks = Append(@, MarkedText(JoinLines(result.current_lines),
                                                  Len(result.current_lines))),
                  !.current_lines = <<line>>,
                  !.current_chars = Len(line),
                  !.k = @ + 1]
          ELSE [result EXCEPT
                  !.current_lines = Append(@, line),
                  !.current_chars = @ + added_chars,
                  !.k = @ + 1]
  /\ UNCHANGED <<queueVars, args>>

\* the flush of the last lines and the return
ChunkReturn ==
  /\ result.pc = "loop"
  /\ result.k > Len(result.lines)
  /\ LET chunks ==
           IF result.current_lines # << >>
           THEN Append(result.chunks, MarkedText(JoinLines(result.current_lines),
                                                 Len(result.current_lines)))
           ELSE result.chunks
     IN result' = [result EXCEPT
                     !.pc = "returned",
                     !.chunks = IF chunks # << >> THEN chunks
                                ELSE <<args.marked_text>>]
  /\ UNCHANGED <<queueVars, args>>

ChunkNext == ChunkEnter \/ ChunkLine \/ ChunkReturn

ChunkSpec == ChunkInit /\ [][ChunkNext]_vars

\* the lines of the chunks, one after the other
RECURSIVE ChunkLines(_)
ChunkLines(chunks) ==
  IF chunks = << >> THEN << >>
  ELSE SplitLines(chunks[1].tagged_text) \o ChunkLines(Tail(chunks))

ChunkTextsOf(chunks) == [k \in 1..Len(chunks) |-> chunks[k].tagged_text]

\* C26: the chunks returned by SizeBasedChunker.chunk consist of whole
\* consecutive lines of tagged_text, joined with a newline they reproduce
\* tagged_text exactly, and every chunk is at most max_chars long unless it
\* is a single line that alone exceeds max_chars.
C26_ChunksAreWholeLines ==
  result.pc = "returned" =>
    /\ ChunkLines(result.chunks) = SplitLines(args.marked_text.tagged_text)
    /\ JoinLines(ChunkTextsOf(result.chunks)) = args.marked_text.tagged_text
    /\ \A k \in 1..Len(result.chunks) :
         \/ Len(result.chunks[k].tagged_text) <= args.max_chars
         \/ Len(SplitLines(result.chunks[k].tagged_text)) = 1

\* a text split into a chunk of two lines and an oversize line on its own
C26_Witness ==
  /\ result.pc = "returned"
  /\ \E k, m \in 1..Len(result.chunks) :
       /\ Len(SplitLines(result.chunks[k].tagged_text)) = 2
       /\ Len(result.chunks[m].tagged_text) > args.max_chars


\* ------------------------------------------------ cached task handlers
\* the handlers that call the LLM through db.llm_cache
CachedTasks == {"summarization", "subtopics_generation"}
\* str(e) of the exception cache_collection.update_one raises
StoreError == "cache store failed"

\* the handler looks its prompt up in the cache
HandlerCacheLookup(w, prompt) ==
  /\ pc[w] = "handler"
  /\ task[w].task_type \in CachedTasks
  /\ CacheLookup(w, prompt)

\* the handler calls the LLM after a miss
HandlerLlmCall(w, response) ==
  /\ pc[w] = "handler"
  /\ LlmCall(w, response)

\* cache_collection.update_one(...) succeeds
HandlerCacheStore(w) ==
  /\ pc[w] = "handler"
  /\ CacheStore(w)

\* cache_collection.update_one(...) raises: neither function catches it,
\* so it leaves the handler and reaches the except of process_task
HandlerCacheStoreFails(w) ==
  /\ pc[w] = "handler"
  /\ caller[w].pc = "store"
  /\ caller' = [caller EXCEPT ![w] = NoCall]
  /\ err' = [err EXCEPT ![w] = StoreError]
  /\ pc' = [pc EXCEPT ![w] = "fail_q"]
  /\ UNCHANGED <<subs, queue, clock, nextId, nsubs, idx, task>>
  /\ UNCHANGED <<running, llm_cache, libVars>>

\* the handler returns: a cached handler after its LLM operations, the
\* other handlers at once
CachedHandlerReturns(w) ==
  /\ pc[w] = "handler"
  /\ caller[w].pc = "idle"
  /\ task[w].task_type \in CachedTasks => caller[w].outputs # << >>
  /\ caller' = [caller EXCEPT ![w] = NoCall]
  /\ pc' = [pc EXCEPT ![w] = "done_q"]
  /\ UNCHANGED <<subs, queue, clock, nextId, nsubs, idx, task, err>>
  /\ UNCHANGED <<running, llm_cache, libVars>>

CachedTaskStep(w) ==
  \/ ClaimFind(w)
  \/ ClaimCheck(w)
  \/ ClaimRelease(w)
  \/ ProcessStart(w)
  \/ ProcessLoad(w)
  \/ \E prompt \in Prompts : HandlerCacheLookup(w, prompt)
  \/ \E response \in Responses : HandlerLlmCall(w, response)
  \/ HandlerCacheStore(w)
  \/ HandlerCacheStoreFails(w)
  \/ CachedHandlerReturns(w)
  \/ MarkCompletedQueue(w)
  \/ MarkCompletedSubmission(w)
  \/ MarkFailedQueue(w)
  \/ MarkFailedSubmission(w)

CachedTaskNext == CachedTaskStep(1) \/ (nsubs = 0 /\ Submit)

CachedTaskSpec == Init /\ [][CachedTaskNext]_vars

\* C27: a failure of the cache store after an LLM call does not abort the
\* task: the worker does not take the failure path for it, and neither the
\* queue entry nor the submission task ends failed with the store's error.
C27_StoreFailureNotFatal ==
  /\ \A w \in Workers : ~(pc[w] \in {"fail_q", "fail_s"} /\ err[w] = StoreError)
  /\ \A e \in queue : ~(e.status = "failed" /\ e.error = StoreError)
  /\ \A s \in Subs : \A t \in DOMAIN subs[s].tasks :
       ~(subs[s].tasks[t].status = "failed" /\ subs[s].tasks[t].error = StoreError)


\* ------------------------------------------------ overall status
\* the tasks map as MongoDB stores it: only the keys that were ever set
StoredDocument(submission) ==
  [tasks |-> [t \in {n \in DOMAIN submission.tasks :
                       submission.tasks[n].status # NULL} |->
                submission.tasks[t]]]

EntriesOf(q, sid) == {e \in q : e.submission_id = sid}

\* C28: once every queue entry enqueued for a submitted document is
\* completed and the workers are back in their loop, get_overall_status of
\* the submission is completed.
C28_AllEntriesCompletedMeansCompleted ==
  \A s \in Subs :
    (/\ subs[s].exists
     /\ WorkersIdle
     /\ {e.task_type : e \in EntriesOf(queue, s)} =
          {p[1] : p \in Range(QueueAllList)}
     /\ \A e \in EntriesOf(queue, s) : e.status = "completed")
    => get_overall_status(StoredDocument(subs[s])) = "completed"


\* ------------------------------------------------ workers and re-queueing
MaxRaceRequests == 2  \* HTTP requests next to the racing workers

\* the requests sent while the workers race: a refresh of everything or of
\* one task, a repeat of any entry, an add of a task with its default priority
RaceRefreshInputs == {<<"all">>, <<"mindmap">>}
RaceAddTypes == {"summarization", "mindmap"}

\* the workers of the deployment next to refresh, repeat and add
RaceNext ==
  \/ \E w \in Workers : WorkerStep(w, {"boom"})
  \/ nsubs = 0 /\ Submit
  \/ clock < MaxRaceRequests /\
       \E sid \in 1..nsubs, tasks \in RaceRefreshInputs : Refresh(sid, tasks)
  \/ clock < MaxRaceRequests /\ \E id \in EntryIds : Repeat(id)
  \/ clock < MaxRaceRequests /\
       \E sid \in 1..nsubs, type \in RaceAddTypes : Add(sid, type, NoPriority)

RaceSpec == Init /\ [][RaceNext]_vars

\* two workers are inside the handler of one task of one submission
SameHandlerTwice ==
  \E v, w \in Workers :
    /\ v # w
    /\ pc[v] = "handler" /\ pc[w] = "handler"
    /\ task[v].submission_id = task[w].submission_id
    /\ task[v].task_type = task[w].task_type

\* worker w writes completed for a task whose entry was deleted and queued
\* again, the fresh entry still being pending
StaleCompletion(w) ==
  /\ pc[w] = "done_s" /\ pc'[w] # "done_s"
  /\ EntryOfTask(queue, w) = {}
  /\ \E e \in queue : /\ e.submission_id = task[w].submission_id
                      /\ e.task_type = task[w].task_type
                      /\ e.status = "pending"
  /\ subs'[task[w].submission_id].tasks[task[w].task_type].status = "completed"

\* C29: whatever the interleaving of worker steps with refresh, repeat and
\* add, two workers never execute the handler of the same submission and
\* task type at once, and a worker finishing an entry that was deleted and
\* queued again does not set the task of the submission to completed while
\* the fresh entry is pending.
C29_NoDoubleExecution ==
  /\ [](~SameHandlerTwice)
  /\ [][\A w \in Workers : ~StaleCompletion(w)]_vars


\* ------------------------------------------------ AdjacentSameTopicJoiner
MaxJoinGroups == 3  \* groups handed to the joiner

\* the ranges of one group, sorted by (start, end) as the parser and the gap
\* handlers emit them
SortedRanges(count) ==
  {rs \in UNION {[1..n -> RangesWithin(count)] : n \in 1..MaxRanges} :
     SortRanges(rs) = rs}

JoinGroupLists(n, count) ==
  [1..n -> [label : TopicLabels, ranges : SortedRanges(count)]]

JoinIdle == [pc |-> "start", once |-> << >>, twice |-> << >>]

JoinInit ==
  /\ QueueIdle
  /\ \E n \in 0..MaxJoinGroups :
       \E groups \in JoinGroupLists(n, MaxSentences) : args = [groups |-> groups]
  /\ result = JoinIdle

\* joiner.join(groups, sentences)
JoinOnce ==
  /\ result.pc = "start"
  /\ result' = [result EXCEPT !.pc = "once",
                              !.once = AdjacentSameTopicJoiner(args.groups)]
  /\ UNCHANGED <<queueVars, args>>

\* joiner.join applied to its own output
JoinTwice ==
  /\ result.pc = "once"
  /\ result' = [result EXCEPT !.pc = "twice",
                              !.twice = AdjacentSameTopicJoiner(result.once)]
  /\ UNCHANGED <<queueVars, args>>

JoinNext == JoinOnce \/ JoinTwice

JoinSpec == JoinInit /\ [][JoinNext]_vars

\* C30: the output of AdjacentSameTopicJoiner.join has no two consecutive
\* groups with equal labels whose ranges touch or overlap, and joining the
\* output again returns it unchanged.
C30_JoinIsIdempotent ==
  /\ result.pc # "start" =>
       \A k \in 1..(Len(result.once) - 1) :
         ~(/\ result.once[k].label = result.once[k + 1].label
           /\ _touches_or_overlaps(result.once[k], result.once[k + 1]))
  /\ result.pc = "twice" => result.twice = result.once

====
